---- MODULE Spec2Model ----
(***************************************************************************)
(* The lite3 C shim (src/src/lite3_shim.c, lite3_shim.h) and the disabled  *)
(* JSON codec (src/src/lite3_json_disabled.c).                             *)
(*                                                                         *)
(* The shim is pure delegation to the lite3 engine (lite3.h,               *)
(* lite3_context_api.h), whose code is not part of the sources under       *)
(* verification.  The engine operators (lite3_*, the encoding) are         *)
(* therefore written from the specification document spec.md, sections 3   *)
(* and 4; the shim_* operators and the lite3_json_* stubs are written from *)
(* the C code.                                                             *)
(*                                                                         *)
(* Unit of offsets, lengths and capacities: one cell of `buf`.  A cell     *)
(* stands for one fixed-width field of the encoding (a tag, a count, a     *)
(* self-relative link, a scalar payload, one character).                   *)
(***************************************************************************)
EXTENDS Integers, Sequences, FiniteSets, TLC

(***************************************************************************)
(* Bounds of the model.                                                    *)
(***************************************************************************)
\* largest capacity (bufsz) a buffer or a context ever has
MaxCap == 13
\* number of initial capacities below MaxCap tried in bounded mode
CapSpread == 1
\* cells of memory modelled behind the largest buffer
Guard == 10

(***************************************************************************)
(* Encoding (spec.md 3, 4.1): the eight variants and the sizes of headers. *)
(***************************************************************************)
LITE3_TYPE_NULL == 0
LITE3_TYPE_BOOL == 1
LITE3_TYPE_I64 == 2
LITE3_TYPE_F64 == 3
LITE3_TYPE_BYTES == 4
LITE3_TYPE_STRING == 5
LITE3_TYPE_OBJECT == 6
LITE3_TYPE_ARRAY == 7
LITE3_TYPE_INVALID == 8

\* container header: tag, entry count, link to first entry, link to last entry
HeaderSize == 4
\* content of a cell the engine has never written
Poison == 255
\* "no offset" / NULL pointer
NULL == -1

MemSize == MaxCap + Guard

\* error kinds (spec.md 7); EINVAL is what the disabled codec sets
ErrKinds == {"KeyNotFound", "IndexOutOfRange", "TypeMismatch", "CapacityExceeded",
             "AllocationFailure", "MalformedEncoding", "EINVAL"}

Max(a, b) == IF a >= b THEN a ELSE b

\* the cell at byte offset o (offsets are 0-based)
At(m, o) == m[o + 1]

\* m with `cells` stored at offsets pos .. pos+Len(cells)-1
Write(m, pos, cells) ==
    [i \in 1..Len(m) |->
        IF i - 1 >= pos /\ i - 1 < pos + Len(cells) THEN cells[i - pos] ELSE m[i]]

Slice(m, pos, n) == [i \in 1..n |-> At(m, pos + i - 1)]

\* a value as the API passes it: variant tag t and payload cells v
Val(t, v) == [t |-> t, v |-> v]

\* encoding of a value: tag, then the payload; strings and bytes carry a
\* length prefix, a fresh container carries an empty header
Encode(val) ==
    IF val.t \in {LITE3_TYPE_STRING, LITE3_TYPE_BYTES}
    THEN <<val.t, Len(val.v)>> \o val.v
    ELSE IF val.t \in {LITE3_TYPE_OBJECT, LITE3_TYPE_ARRAY}
    THEN <<val.t, 0, 0, 0>>
    ELSE <<val.t>> \o val.v

\* size of the value stored at offset v, read from its tag and length prefix
ValSize(m, v) ==
    LET t == At(m, v) IN
    IF t = LITE3_TYPE_NULL THEN 1
    ELSE IF t \in {LITE3_TYPE_BOOL, LITE3_TYPE_I64, LITE3_TYPE_F64} THEN 2
    ELSE IF t \in {LITE3_TYPE_STRING, LITE3_TYPE_BYTES} THEN 2 + At(m, v + 1)
    ELSE HeaderSize

\* the value stored at offset v, decoded
Decode(m, v) ==
    LET t == At(m, v) IN
    IF t \in {LITE3_TYPE_STRING, LITE3_TYPE_BYTES}
    THEN Val(t, Slice(m, v + 2, At(m, v + 1)))
    ELSE IF t \in {LITE3_TYPE_OBJECT, LITE3_TYPE_ARRAY} THEN Val(t, <<>>)
    ELSE Val(t, Slice(m, v + 1, ValSize(m, v) - 1))

\* self-relative link: the delta stored at offset o, relative to `base`; 0 is
\* "none"
Link(m, base, o) == IF At(m, o) = 0 THEN NULL ELSE base + At(m, o)

\* container header fields; its links are relative to the container's offset
CountAt(m, ofs) == At(m, ofs + 1)
FirstEntry(m, ofs) == Link(m, ofs, ofs + 2)
LastEntry(m, ofs) == Link(m, ofs, ofs + 3)

\* an object entry at e: link to next, key length, key, value
\* an array entry at e: link to next, value
EntryNext(m, e) == Link(m, e, e)
EntryKey(m, e) == Slice(m, e + 2, At(m, e + 1))
ObjValOfs(m, e) == e + 2 + At(m, e + 1)
ArrValOfs(m, e) == e + 1

\* accessors validate the offset before trusting the header (I1)
IsContainer(m, len, ofs) ==
    /\ ofs >= 0
    /\ ofs + HeaderSize <= len
    /\ At(m, ofs) \in {LITE3_TYPE_OBJECT, LITE3_TYPE_ARRAY}

\* result of an engine call
Res(r, e, m, len, o) == [ret |-> r, errno |-> e, buf |-> m, buflen |-> len, ofs |-> o]
Fail(e, m, len) == Res(-1, e, m, len, NULL)

\* walk the entry list of the object for `key`, remembering the predecessor
RECURSIVE FindEntry(_, _, _, _, _)
FindEntry(m, e, prev, key, fuel) ==
    IF e = NULL \/ fuel = 0 THEN [found |-> FALSE, e |-> NULL, prev |-> prev]
    ELSE IF EntryKey(m, e) = key THEN [found |-> TRUE, e |-> e, prev |-> prev]
    ELSE FindEntry(m, EntryNext(m, e), e, key, fuel - 1)

Lookup(m, ofs, key) == FindEntry(m, FirstEntry(m, ofs), NULL, key, CountAt(m, ofs))

\* the n-th entry (0-based) of a list starting at e
RECURSIVE NthEntry(_, _, _)
NthEntry(m, e, n) ==
    IF e = NULL \/ n = 0 THEN e ELSE NthEntry(m, EntryNext(m, e), n - 1)

(***************************************************************************)
(* Set-by-key (spec.md 4.2).  Existing key: same encoded size replaces the *)
(* value in place; another size relocates the entry to the end of the used *)
(* region and relinks it where it was.  New key: appends an entry.  The    *)
(* capacity check precedes every write.                                    *)
(***************************************************************************)
lite3_set(m, len, ofs, sz, key, val) ==
    IF ~IsContainer(m, len, ofs) THEN Fail("MalformedEncoding", m, len)
    ELSE IF At(m, ofs) # LITE3_TYPE_OBJECT THEN Fail("TypeMismatch", m, len)
    ELSE
    LET f     == Lookup(m, ofs, key)
        enc   == Encode(val)
        entry == <<0, Len(key)>> \o key \o enc
        newE  == len
        newV  == newE + 2 + Len(key)
    IN
    IF f.found /\ ValSize(m, ObjValOfs(m, f.e)) = Len(enc)
    THEN Res(0, "", Write(m, ObjValOfs(m, f.e), enc), len, ObjValOfs(m, f.e))
    ELSE IF len + Len(entry) > sz THEN Fail("CapacityExceeded", m, len)
    ELSE IF f.found
    THEN \* relocate: the new entry takes the old one's place in the list
        LET nxt == EntryNext(m, f.e)
            m1  == Write(m, newE, entry)
            m2  == Write(m1, newE, <<IF nxt = NULL THEN 0 ELSE nxt - newE>>)
            m3  == IF f.prev = NULL
                   THEN Write(m2, ofs + 2, <<newE - ofs>>)
                   ELSE Write(m2, f.prev, <<newE - f.prev>>)
            m4  == IF nxt = NULL THEN Write(m3, ofs + 3, <<newE - ofs>>) ELSE m3
        IN Res(0, "", m4, len + Len(entry), newV)
    ELSE \* append a new entry after the current tail
        LET t   == LastEntry(m, ofs)
            m1  == Write(m, newE, entry)
            m2  == IF t = NULL
                   THEN Write(m1, ofs + 2, <<newE - ofs>>)
                   ELSE Write(m1, t, <<newE - t>>)
            m3  == Write(m2, ofs + 3, <<newE - ofs>>)
            m4  == Write(m3, ofs + 1, <<CountAt(m, ofs) + 1>>)
        IN Res(0, "", m4, len + Len(entry), newV)

(***************************************************************************)
(* Append-to-array (spec.md 4.2): always appends past the current end.     *)
(***************************************************************************)
lite3_arr_append(m, len, ofs, sz, val) ==
    IF ~IsContainer(m, len, ofs) THEN Fail("MalformedEncoding", m, len)
    ELSE IF At(m, ofs) # LITE3_TYPE_ARRAY THEN Fail("TypeMismatch", m, len)
    ELSE
    LET entry == <<0>> \o Encode(val)
        newE  == len
        t     == LastEntry(m, ofs)
    IN
    IF len + Len(entry) > sz THEN Fail("CapacityExceeded", m, len)
    ELSE
        LET m1 == Write(m, newE, entry)
            m2 == IF t = NULL
                  THEN Write(m1, ofs + 2, <<newE - ofs>>)
                  ELSE Write(m1, t, <<newE - t>>)
            m3 == Write(m2, ofs + 3, <<newE - ofs>>)
            m4 == Write(m3, ofs + 1, <<CountAt(m, ofs) + 1>>)
        IN Res(0, "", m4, len + Len(entry), newE + 1)


(***************************************************************************)
(* Reads (spec.md 4.2).  A typed get on an entry of another variant is a   *)
(* TypeMismatch, on an absent key KeyNotFound, on an index >= count        *)
(* IndexOutOfRange.  A read result carries the out-parameters written.     *)
(***************************************************************************)
OutNone == [val |-> <<>>, ptr |-> NULL, len |-> 0, ofs |-> NULL, w |-> {}]
RRes(r, e, o) == [ret |-> r, errno |-> e, out |-> o]
RFail(e) == RRes(-1, e, OutNone)

\* offset of the value stored under key, or the error
lite3_find(m, len, ofs, key) ==
    IF ~IsContainer(m, len, ofs) THEN [ret |-> -1, errno |-> "MalformedEncoding", v |-> NULL]
    ELSE IF At(m, ofs) # LITE3_TYPE_OBJECT THEN [ret |-> -1, errno |-> "TypeMismatch", v |-> NULL]
    ELSE LET f == Lookup(m, ofs, key) IN
         IF ~f.found THEN [ret |-> -1, errno |-> "KeyNotFound", v |-> NULL]
         ELSE [ret |-> 0, errno |-> "", v |-> ObjValOfs(m, f.e)]

\* offset of the value at index, or the error
lite3_arr_find(m, len, ofs, index) ==
    IF ~IsContainer(m, len, ofs) THEN [ret |-> -1, errno |-> "MalformedEncoding", v |-> NULL]
    ELSE IF At(m, ofs) # LITE3_TYPE_ARRAY THEN [ret |-> -1, errno |-> "TypeMismatch", v |-> NULL]
    ELSE IF index >= CountAt(m, ofs) THEN [ret |-> -1, errno |-> "IndexOutOfRange", v |-> NULL]
    ELSE [ret |-> 0, errno |-> "", v |-> ArrValOfs(m, NthEntry(m, FirstEntry(m, ofs), index))]

\* the typed read of the value found at f.v
TypedRead(m, f, t) ==
    IF f.ret < 0 THEN RFail(f.errno)
    ELSE IF At(m, f.v) # t THEN RFail("TypeMismatch")
    ELSE IF t \in {LITE3_TYPE_STRING, LITE3_TYPE_BYTES}
    THEN RRes(0, "", [OutNone EXCEPT !.ptr = f.v + 2, !.len = At(m, f.v + 1), !.w = {"s"}])
    ELSE IF t \in {LITE3_TYPE_OBJECT, LITE3_TYPE_ARRAY}
    THEN RRes(0, "", [OutNone EXCEPT !.ofs = f.v, !.w = {"out_ofs"}])
    ELSE RRes(0, "", [OutNone EXCEPT !.val = Decode(m, f.v).v, !.w = {"out"}])

lite3_get(m, len, ofs, key, t) == TypedRead(m, lite3_find(m, len, ofs, key), t)
lite3_arr_get(m, len, ofs, index, t) == TypedRead(m, lite3_arr_find(m, len, ofs, index), t)

lite3_get_type(m, len, ofs, key) ==
    LET f == lite3_find(m, len, ofs, key) IN
    IF f.ret < 0 THEN LITE3_TYPE_INVALID ELSE At(m, f.v)

lite3_arr_get_type(m, len, ofs, index) ==
    LET f == lite3_arr_find(m, len, ofs, index) IN
    IF f.ret < 0 THEN LITE3_TYPE_INVALID ELSE At(m, f.v)

lite3_exists(m, len, ofs, key) == lite3_find(m, len, ofs, key).ret >= 0

\* the entry count the container records in its header (I2)
lite3_count(m, len, ofs) ==
    IF ~IsContainer(m, len, ofs) THEN RFail("MalformedEncoding")
    ELSE RRes(0, "", [OutNone EXCEPT !.val = <<CountAt(m, ofs)>>, !.w = {"out"}])

\* resolution of a string or bytes view against the buffer
LITE3_STR(m, s) == s.ptr
LITE3_BYTES(m, s) == s.ptr


(***************************************************************************)
(* The shim, buffer API (lite3_shim.c).  Each shim function hands its      *)
(* arguments to the engine function of the same name and returns its       *)
(* result.  `len` is *inout_buflen on entry; the result's buflen is its    *)
(* value on return.                                                        *)
(***************************************************************************)
\* mutant: the else branch leaving the view's length in *out_len
ViewOut_stale(r, p) ==
    IF r.ret >= 0
    THEN RRes(r.ret, r.errno, [OutNone EXCEPT !.ptr = p, !.len = r.out.len,
                                              !.w = {"out_ptr", "out_len"}])
    ELSE RRes(r.ret, r.errno, OutNone)

\* the if (p) ... else ... block of the str/bytes getters: out_ptr and
\* out_len are written only when ret >= 0
ViewOut(r, p) ==
    IF r.ret >= 0
    THEN IF p # NULL
         THEN RRes(r.ret, r.errno, [OutNone EXCEPT !.ptr = p, !.len = r.out.len,
                                                   !.w = {"out_ptr", "out_len"}])
         ELSE RRes(r.ret, r.errno, [OutNone EXCEPT !.ptr = NULL, !.len = 0,
                                                   !.w = {"out_ptr", "out_len"}])
    ELSE RRes(r.ret, r.errno, OutNone)

\* mutants: a getter delegating to the engine function of a neighbouring type
shim_lite3_get_bool_paste(b, len, ofs, key) == lite3_get(b, len, ofs, key, LITE3_TYPE_I64)
shim_lite3_get_i64_paste(b, len, ofs, key) == lite3_get(b, len, ofs, key, LITE3_TYPE_F64)

shim_lite3_get_arr_paste(b, len, ofs, key) == lite3_get(b, len, ofs, key, LITE3_TYPE_OBJECT)

shim_lite3_get_bool(b, len, ofs, key) == lite3_get(b, len, ofs, key, LITE3_TYPE_BOOL)
shim_lite3_get_i64(b, len, ofs, key) == lite3_get(b, len, ofs, key, LITE3_TYPE_I64)
shim_lite3_get_f64(b, len, ofs, key) == lite3_get(b, len, ofs, key, LITE3_TYPE_F64)
shim_lite3_get_str(b, len, ofs, key) ==
    LET r == lite3_get(b, len, ofs, key, LITE3_TYPE_STRING)
    IN ViewOut(r, LITE3_STR(b, r.out))
shim_lite3_get_bytes(b, len, ofs, key) ==
    LET r == lite3_get(b, len, ofs, key, LITE3_TYPE_BYTES)
    IN ViewOut(r, LITE3_BYTES(b, r.out))
shim_lite3_get_obj(b, len, ofs, key) == lite3_get(b, len, ofs, key, LITE3_TYPE_OBJECT)
shim_lite3_get_arr(b, len, ofs, key) == lite3_get(b, len, ofs, key, LITE3_TYPE_ARRAY)
shim_lite3_get_type(b, len, ofs, key) == lite3_get_type(b, len, ofs, key)
shim_lite3_exists(b, len, ofs, key) == IF lite3_exists(b, len, ofs, key) THEN 1 ELSE 0

\* mutants of the shim's delegation
\* the capacity taken as the room left after *inout_buflen
shim_lite3_set_null_room(b, len, ofs, sz, key) ==
    lite3_set(b, len, ofs, len + sz, key, Val(LITE3_TYPE_NULL, <<>>))
\* *inout_buflen written back from a cleared temporary on failure
shim_lite3_set_null_lenbug(b, len, ofs, sz, key) ==
    LET r == lite3_set(b, len, ofs, sz, key, Val(LITE3_TYPE_NULL, <<>>))
    IN [r EXCEPT !.buflen = IF r.ret < 0 THEN 0 ELSE r.buflen]
\* str_len counted with the terminating NUL
shim_lite3_set_str_nul(b, len, ofs, sz, key, str, str_len) ==
    lite3_set(b, len, ofs, sz, key, Val(LITE3_TYPE_STRING, str \o <<0>>))

shim_lite3_set_null(b, len, ofs, sz, key) ==
    lite3_set(b, len, ofs, sz, key, Val(LITE3_TYPE_NULL, <<>>))
shim_lite3_set_bool(b, len, ofs, sz, key, value) ==
    lite3_set(b, len, ofs, sz, key, Val(LITE3_TYPE_BOOL, <<value>>))
shim_lite3_set_i64(b, len, ofs, sz, key, value) ==
    lite3_set(b, len, ofs, sz, key, Val(LITE3_TYPE_I64, <<value>>))
shim_lite3_set_f64(b, len, ofs, sz, key, value) ==
    lite3_set(b, len, ofs, sz, key, Val(LITE3_TYPE_F64, <<value>>))
shim_lite3_set_str(b, len, ofs, sz, key, str, str_len) ==
    lite3_set(b, len, ofs, sz, key, Val(LITE3_TYPE_STRING, SubSeq(str, 1, str_len)))
shim_lite3_set_bytes(b, len, ofs, sz, key, data, data_len) ==
    lite3_set(b, len, ofs, sz, key, Val(LITE3_TYPE_BYTES, SubSeq(data, 1, data_len)))
shim_lite3_set_obj(b, len, ofs, sz, key) ==
    lite3_set(b, len, ofs, sz, key, Val(LITE3_TYPE_OBJECT, <<>>))
shim_lite3_set_arr(b, len, ofs, sz, key) ==
    lite3_set(b, len, ofs, sz, key, Val(LITE3_TYPE_ARRAY, <<>>))

\* mutant: the i64 append delegating to the f64 append
shim_lite3_arr_append_i64_paste(b, len, ofs, sz, value) ==
    lite3_arr_append(b, len, ofs, sz, Val(LITE3_TYPE_F64, <<value>>))

shim_lite3_arr_append_null(b, len, ofs, sz) ==
    lite3_arr_append(b, len, ofs, sz, Val(LITE3_TYPE_NULL, <<>>))
shim_lite3_arr_append_bool(b, len, ofs, sz, value) ==
    lite3_arr_append(b, len, ofs, sz, Val(LITE3_TYPE_BOOL, <<value>>))
shim_lite3_arr_append_i64(b, len, ofs, sz, value) ==
    lite3_arr_append(b, len, ofs, sz, Val(LITE3_TYPE_I64, <<value>>))
shim_lite3_arr_append_f64(b, len, ofs, sz, value) ==
    lite3_arr_append(b, len, ofs, sz, Val(LITE3_TYPE_F64, <<value>>))
shim_lite3_arr_append_str(b, len, ofs, sz, str, str_len) ==
    lite3_arr_append(b, len, ofs, sz, Val(LITE3_TYPE_STRING, SubSeq(str, 1, str_len)))
shim_lite3_arr_append_bytes(b, len, ofs, sz, data, data_len) ==
    lite3_arr_append(b, len, ofs, sz, Val(LITE3_TYPE_BYTES, SubSeq(data, 1, data_len)))
shim_lite3_arr_append_obj(b, len, ofs, sz) ==
    lite3_arr_append(b, len, ofs, sz, Val(LITE3_TYPE_OBJECT, <<>>))
shim_lite3_arr_append_arr(b, len, ofs, sz) ==
    lite3_arr_append(b, len, ofs, sz, Val(LITE3_TYPE_ARRAY, <<>>))

shim_lite3_arr_get_bool(b, len, ofs, index) == lite3_arr_get(b, len, ofs, index, LITE3_TYPE_BOOL)
shim_lite3_arr_get_i64(b, len, ofs, index) == lite3_arr_get(b, len, ofs, index, LITE3_TYPE_I64)
shim_lite3_arr_get_f64(b, len, ofs, index) == lite3_arr_get(b, len, ofs, index, LITE3_TYPE_F64)
shim_lite3_arr_get_str(b, len, ofs, index) ==
    LET r == lite3_arr_get(b, len, ofs, index, LITE3_TYPE_STRING)
    IN ViewOut(r, LITE3_STR(b, r.out))
shim_lite3_arr_get_bytes(b, len, ofs, index) ==
    LET r == lite3_arr_get(b, len, ofs, index, LITE3_TYPE_BYTES)
    IN ViewOut(r, LITE3_BYTES(b, r.out))
shim_lite3_arr_get_obj(b, len, ofs, index) == lite3_arr_get(b, len, ofs, index, LITE3_TYPE_OBJECT)
shim_lite3_arr_get_arr(b, len, ofs, index) == lite3_arr_get(b, len, ofs, index, LITE3_TYPE_ARRAY)
shim_lite3_arr_get_type(b, len, ofs, index) == lite3_arr_get_type(b, len, ofs, index)

shim_lite3_count(b, len, ofs) == lite3_count(b, len, ofs)

(***************************************************************************)
(* Iterator (spec.md 4.4).  The cursor stores the position of the next     *)
(* entry and a loop bound, the entry count at creation.                    *)
(***************************************************************************)
LITE3_ITER_ITEM == 0
LITE3_ITER_DONE == 1

IRes(r, e, it, o) == [ret |-> r, errno |-> e, iter |-> it, out |-> o]

lite3_iter_create(m, len, ofs, it) ==
    IF ~IsContainer(m, len, ofs) THEN IRes(-1, "MalformedEncoding", it, OutNone)
    ELSE IRes(0, "", [ofs |-> ofs, pos |-> FirstEntry(m, ofs),
                      remaining |-> CountAt(m, ofs),
                      isobj |-> At(m, ofs) = LITE3_TYPE_OBJECT], OutNone)

\* yields the key view (ptr NULL for an array) and the value offset
lite3_iter_next(m, len, it) ==
    IF it.ofs = NULL THEN IRes(-1, "MalformedEncoding", it, OutNone)
    ELSE IF it.remaining = 0 \/ it.pos = NULL
    THEN IRes(LITE3_ITER_DONE, "", [it EXCEPT !.remaining = 0], OutNone)
    ELSE IRes(LITE3_ITER_ITEM, "",
              [it EXCEPT !.pos = EntryNext(m, it.pos), !.remaining = it.remaining - 1],
              IF it.isobj
              THEN [OutNone EXCEPT !.ptr = it.pos + 2, !.len = At(m, it.pos + 1),
                                   !.ofs = ObjValOfs(m, it.pos), !.w = {"key", "val_ofs"}]
              ELSE [OutNone EXCEPT !.ptr = NULL, !.len = 0,
                                   !.ofs = ArrValOfs(m, it.pos), !.w = {"key", "val_ofs"}])

shim_lite3_iter_create(b, len, ofs, it) == lite3_iter_create(b, len, ofs, it)

\* mutant: the test of key.ptr inverted
shim_lite3_iter_next_nokey(b, len, it) ==
    LET r == lite3_iter_next(b, len, it) IN
    IF r.ret = LITE3_ITER_DONE THEN IRes(1, r.errno, r.iter, OutNone)
    ELSE IF r.ret < 0 THEN IRes(r.ret, r.errno, r.iter, OutNone)
    ELSE IF r.out.ptr = NULL
    THEN IRes(0, r.errno, r.iter,
              [r.out EXCEPT !.ptr = LITE3_STR(b, r.out), !.len = r.out.len,
                            !.w = {"key_ptr", "key_len", "val_ofs"}])
    ELSE IRes(0, r.errno, r.iter,
              [r.out EXCEPT !.ptr = NULL, !.len = 0,
                            !.w = {"key_ptr", "key_len", "val_ofs"}])

\* mutant: on done the cursor is created anew
shim_lite3_iter_next_rewind(b, len, it) ==
    LET r == lite3_iter_next(b, len, it) IN
    IF r.ret = LITE3_ITER_DONE
    THEN IRes(1, r.errno, lite3_iter_create(b, len, it.ofs, it).iter, OutNone)
    ELSE IF r.ret < 0 THEN IRes(r.ret, r.errno, r.iter, OutNone)
    ELSE IF r.out.ptr # NULL
    THEN IRes(0, r.errno, r.iter,
              [r.out EXCEPT !.ptr = LITE3_STR(b, r.out), !.len = r.out.len,
                            !.w = {"key_ptr", "key_len", "val_ofs"}])
    ELSE IRes(0, r.errno, r.iter,
              [r.out EXCEPT !.ptr = NULL, !.len = 0,
                            !.w = {"key_ptr", "key_len", "val_ofs"}])

\* mutant: the key out-parameters cleared before the tests of ret
shim_lite3_iter_next_always(b, len, it) ==
    LET r == lite3_iter_next(b, len, it) IN
    IF r.ret = LITE3_ITER_DONE
    THEN IRes(1, r.errno, r.iter, [OutNone EXCEPT !.w = {"key_ptr", "key_len"}])
    ELSE IF r.ret < 0
    THEN IRes(r.ret, r.errno, r.iter, [OutNone EXCEPT !.w = {"key_ptr", "key_len"}])
    ELSE IF r.out.ptr # NULL
    THEN IRes(0, r.errno, r.iter,
              [r.out EXCEPT !.ptr = LITE3_STR(b, r.out), !.len = r.out.len,
                            !.w = {"key_ptr", "key_len", "val_ofs"}])
    ELSE IRes(0, r.errno, r.iter,
              [r.out EXCEPT !.ptr = NULL, !.len = 0,
                            !.w = {"key_ptr", "key_len", "val_ofs"}])

\* 1 when done, the negative code on error, else 0 with key_ptr/key_len set
\* (NULL/0 for an array); val_ofs is written by the engine
shim_lite3_iter_next(b, len, it) ==
    LET r == lite3_iter_next(b, len, it) IN
    IF r.ret = LITE3_ITER_DONE THEN IRes(1, r.errno, r.iter, OutNone)
    ELSE IF r.ret < 0 THEN IRes(r.ret, r.errno, r.iter, OutNone)
    ELSE IF r.out.ptr # NULL
    THEN IRes(0, r.errno, r.iter,
              [r.out EXCEPT !.ptr = LITE3_STR(b, r.out), !.len = r.out.len,
                            !.w = {"key_ptr", "key_len", "val_ofs"}])
    ELSE IRes(0, r.errno, r.iter,
              [r.out EXCEPT !.ptr = NULL, !.len = 0,
                            !.w = {"key_ptr", "key_len", "val_ofs"}])

(***************************************************************************)
(* Growable container (spec.md 4.3).  ctx owns buf, buflen and bufsz.  On  *)
(* a capacity error of the bounded call the buffer is reallocated once, to *)
(* a doubled capacity sufficient for the operation, the used cells are     *)
(* copied and the call is retried.  A failed allocation leaves ctx as it   *)
(* was.  `ok` is the allocator's answer; it has no more than CtxCap cells. *)
(***************************************************************************)
CtxCap == MaxCap + 7

CRes(r, e, c, o) == [ret |-> r, errno |-> e, ctx |-> c, ofs |-> o]

lite3_ctx_create_with_size(sz) ==
    [buf |-> [i \in 1..(MaxCap + Guard) |-> Poison], buflen |-> 0, bufsz |-> sz]

RECURSIVE GrowTo(_, _)
GrowTo(sz, need) == IF sz >= need THEN sz ELSE GrowTo(2 * sz, need)

\* the new block: the used cells copied, the rest uninitialised
Realloc(m, len) == [i \in 1..Len(m) |-> IF i <= len THEN m[i] ELSE Poison]

lite3_ctx_grow(c, need, ok) ==
    LET newsz == GrowTo(c.bufsz, need) IN
    IF ~ok \/ newsz > CtxCap THEN CRes(-1, "AllocationFailure", c, NULL)
    ELSE CRes(0, "", [buf |-> Realloc(c.buf, c.buflen), buflen |-> c.buflen,
                      bufsz |-> newsz], NULL)

\* a bounded result folded back into the container
Fold(c, r) == CRes(r.ret, r.errno, [c EXCEPT !.buf = r.buf, !.buflen = r.buflen], r.ofs)

lite3_ctx_set(c, ofs, key, val, ok) ==
    LET r == lite3_set(c.buf, c.buflen, ofs, c.bufsz, key, val) IN
    IF r.ret < 0 /\ r.errno = "CapacityExceeded"
    THEN LET g == lite3_ctx_grow(c, c.buflen + 2 + Len(key) + Len(Encode(val)), ok) IN
         IF g.ret < 0 THEN g
         ELSE Fold(g.ctx, lite3_set(g.ctx.buf, g.ctx.buflen, ofs, g.ctx.bufsz, key, val))
    ELSE Fold(c, r)

lite3_ctx_arr_append(c, ofs, val, ok) ==
    LET r == lite3_arr_append(c.buf, c.buflen, ofs, c.bufsz, val) IN
    IF r.ret < 0 /\ r.errno = "CapacityExceeded"
    THEN LET g == lite3_ctx_grow(c, c.buflen + 1 + Len(Encode(val)), ok) IN
         IF g.ret < 0 THEN g
         ELSE Fold(g.ctx, lite3_arr_append(g.ctx.buf, g.ctx.buflen, ofs, g.ctx.bufsz, val))
    ELSE Fold(c, r)

\* an empty root container of variant t written at offset 0
lite3_ctx_init(c, t, ok) ==
    LET w == [i \in 1..Len(c.buf) |-> IF i <= HeaderSize THEN <<t, 0, 0, 0>>[i] ELSE c.buf[i]]
    IN
    IF HeaderSize > c.bufsz
    THEN LET g == lite3_ctx_grow(c, HeaderSize, ok) IN
         IF g.ret < 0 THEN g
         ELSE CRes(0, "", [g.ctx EXCEPT !.buf = w, !.buflen = HeaderSize], 0)
    ELSE CRes(0, "", [c EXCEPT !.buf = w, !.buflen = HeaderSize], 0)

lite3_ctx_get(c, ofs, key, t) == lite3_get(c.buf, c.buflen, ofs, key, t)
lite3_ctx_arr_get(c, ofs, index, t) == lite3_arr_get(c.buf, c.buflen, ofs, index, t)
lite3_ctx_count(c, ofs) == lite3_count(c.buf, c.buflen, ofs)

(***************************************************************************)
(* The shim, context API (lite3_shim.c 316-433).                           *)
(***************************************************************************)
shim_lite3_ctx_create_with_size(sz) == lite3_ctx_create_with_size(sz)
shim_lite3_ctx_buf(c) == c.buf
shim_lite3_ctx_buflen(c) == c.buflen
shim_lite3_ctx_bufsz(c) == c.bufsz

shim_lite3_ctx_init_obj(c, ok) == lite3_ctx_init(c, LITE3_TYPE_OBJECT, ok)
shim_lite3_ctx_init_arr(c, ok) == lite3_ctx_init(c, LITE3_TYPE_ARRAY, ok)

\* mutants
\* the context setter delegating to the bounded setter on the context's fields
shim_lite3_ctx_set_null_bounded(c, ofs, key, ok) ==
    Fold(c, lite3_set(c.buf, c.buflen, ofs, c.bufsz, key, Val(LITE3_TYPE_NULL, <<>>)))
\* str_len counted with the terminating NUL
shim_lite3_ctx_set_str_nul(c, ofs, key, str, str_len, ok) ==
    lite3_ctx_set(c, ofs, key, Val(LITE3_TYPE_STRING, str \o <<0>>), ok)

shim_lite3_ctx_set_null(c, ofs, key, ok) ==
    lite3_ctx_set(c, ofs, key, Val(LITE3_TYPE_NULL, <<>>), ok)
shim_lite3_ctx_set_bool(c, ofs, key, value, ok) ==
    lite3_ctx_set(c, ofs, key, Val(LITE3_TYPE_BOOL, <<value>>), ok)
shim_lite3_ctx_set_i64(c, ofs, key, value, ok) ==
    lite3_ctx_set(c, ofs, key, Val(LITE3_TYPE_I64, <<value>>), ok)
shim_lite3_ctx_set_f64(c, ofs, key, value, ok) ==
    lite3_ctx_set(c, ofs, key, Val(LITE3_TYPE_F64, <<value>>), ok)
shim_lite3_ctx_set_str(c, ofs, key, str, str_len, ok) ==
    lite3_ctx_set(c, ofs, key, Val(LITE3_TYPE_STRING, SubSeq(str, 1, str_len)), ok)
shim_lite3_ctx_set_bytes(c, ofs, key, data, data_len, ok) ==
    lite3_ctx_set(c, ofs, key, Val(LITE3_TYPE_BYTES, SubSeq(data, 1, data_len)), ok)
shim_lite3_ctx_set_obj(c, ofs, key, ok) ==
    lite3_ctx_set(c, ofs, key, Val(LITE3_TYPE_OBJECT, <<>>), ok)
shim_lite3_ctx_set_arr(c, ofs, key, ok) ==
    lite3_ctx_set(c, ofs, key, Val(LITE3_TYPE_ARRAY, <<>>), ok)

\* mutant: the i64 getter delegating to the f64 getter
shim_lite3_ctx_get_i64_paste(c, ofs, key) == lite3_ctx_get(c, ofs, key, LITE3_TYPE_F64)

shim_lite3_ctx_get_type(c, ofs, key) == lite3_get_type(c.buf, c.buflen, ofs, key)
shim_lite3_ctx_exists(c, ofs, key) == IF lite3_exists(c.buf, c.buflen, ofs, key) THEN 1 ELSE 0
shim_lite3_ctx_get_bool(c, ofs, key) == lite3_ctx_get(c, ofs, key, LITE3_TYPE_BOOL)
shim_lite3_ctx_get_i64(c, ofs, key) == lite3_ctx_get(c, ofs, key, LITE3_TYPE_I64)
shim_lite3_ctx_get_f64(c, ofs, key) == lite3_ctx_get(c, ofs, key, LITE3_TYPE_F64)
\* mutant: the string getter delegating to the bytes getter
shim_lite3_ctx_get_str_paste(c, ofs, key) ==
    LET r == lite3_ctx_get(c, ofs, key, LITE3_TYPE_BYTES)
    IN ViewOut(r, LITE3_BYTES(c.buf, r.out))

shim_lite3_ctx_get_str(c, ofs, key) ==
    LET r == lite3_ctx_get(c, ofs, key, LITE3_TYPE_STRING)
    IN ViewOut(r, LITE3_STR(c.buf, r.out))
shim_lite3_ctx_get_bytes(c, ofs, key) ==
    LET r == lite3_ctx_get(c, ofs, key, LITE3_TYPE_BYTES)
    IN ViewOut(r, LITE3_BYTES(c.buf, r.out))
shim_lite3_ctx_get_obj(c, ofs, key) == lite3_ctx_get(c, ofs, key, LITE3_TYPE_OBJECT)
shim_lite3_ctx_get_arr(c, ofs, key) == lite3_ctx_get(c, ofs, key, LITE3_TYPE_ARRAY)

shim_lite3_ctx_arr_get_bool(c, ofs, index) == lite3_ctx_arr_get(c, ofs, index, LITE3_TYPE_BOOL)
shim_lite3_ctx_arr_get_i64(c, ofs, index) == lite3_ctx_arr_get(c, ofs, index, LITE3_TYPE_I64)
shim_lite3_ctx_arr_get_f64(c, ofs, index) == lite3_ctx_arr_get(c, ofs, index, LITE3_TYPE_F64)
shim_lite3_ctx_arr_get_str(c, ofs, index) ==
    LET r == lite3_ctx_arr_get(c, ofs, index, LITE3_TYPE_STRING)
    IN ViewOut(r, LITE3_STR(c.buf, r.out))
shim_lite3_ctx_arr_get_bytes(c, ofs, index) ==
    LET r == lite3_ctx_arr_get(c, ofs, index, LITE3_TYPE_BYTES)
    IN ViewOut(r, LITE3_BYTES(c.buf, r.out))
shim_lite3_ctx_arr_get_obj(c, ofs, index) == lite3_ctx_arr_get(c, ofs, index, LITE3_TYPE_OBJECT)
shim_lite3_ctx_arr_get_arr(c, ofs, index) == lite3_ctx_arr_get(c, ofs, index, LITE3_TYPE_ARRAY)
shim_lite3_ctx_arr_get_type(c, ofs, index) == lite3_arr_get_type(c.buf, c.buflen, ofs, index)

shim_lite3_ctx_arr_append_null(c, ofs, ok) ==
    lite3_ctx_arr_append(c, ofs, Val(LITE3_TYPE_NULL, <<>>), ok)
shim_lite3_ctx_arr_append_bool(c, ofs, value, ok) ==
    lite3_ctx_arr_append(c, ofs, Val(LITE3_TYPE_BOOL, <<value>>), ok)
shim_lite3_ctx_arr_append_i64(c, ofs, value, ok) ==
    lite3_ctx_arr_append(c, ofs, Val(LITE3_TYPE_I64, <<value>>), ok)
shim_lite3_ctx_arr_append_f64(c, ofs, value, ok) ==
    lite3_ctx_arr_append(c, ofs, Val(LITE3_TYPE_F64, <<value>>), ok)
shim_lite3_ctx_arr_append_str(c, ofs, str, str_len, ok) ==
    lite3_ctx_arr_append(c, ofs, Val(LITE3_TYPE_STRING, SubSeq(str, 1, str_len)), ok)
shim_lite3_ctx_arr_append_bytes(c, ofs, data, data_len, ok) ==
    lite3_ctx_arr_append(c, ofs, Val(LITE3_TYPE_BYTES, SubSeq(data, 1, data_len)), ok)
shim_lite3_ctx_arr_append_obj(c, ofs, ok) ==
    lite3_ctx_arr_append(c, ofs, Val(LITE3_TYPE_OBJECT, <<>>), ok)
shim_lite3_ctx_arr_append_arr(c, ofs, ok) ==
    lite3_ctx_arr_append(c, ofs, Val(LITE3_TYPE_ARRAY, <<>>), ok)

shim_lite3_ctx_count(c, ofs) == lite3_ctx_count(c, ofs)

(***************************************************************************)
(* Callers: which shim function a call of a given variant goes through.    *)
(***************************************************************************)
ShimSet(b, len, ofs, sz, key, val) ==
    CASE val.t = LITE3_TYPE_NULL   -> shim_lite3_set_null(b, len, ofs, sz, key)
      [] val.t = LITE3_TYPE_BOOL   -> shim_lite3_set_bool(b, len, ofs, sz, key, val.v[1])
      [] val.t = LITE3_TYPE_I64    -> shim_lite3_set_i64(b, len, ofs, sz, key, val.v[1])
      [] val.t = LITE3_TYPE_F64    -> shim_lite3_set_f64(b, len, ofs, sz, key, val.v[1])
      [] val.t = LITE3_TYPE_STRING -> shim_lite3_set_str(b, len, ofs, sz, key, val.v, Len(val.v))
      [] val.t = LITE3_TYPE_BYTES  -> shim_lite3_set_bytes(b, len, ofs, sz, key, val.v, Len(val.v))
      [] val.t = LITE3_TYPE_OBJECT -> shim_lite3_set_obj(b, len, ofs, sz, key)
      [] val.t = LITE3_TYPE_ARRAY  -> shim_lite3_set_arr(b, len, ofs, sz, key)

ShimAppend(b, len, ofs, sz, val) ==
    CASE val.t = LITE3_TYPE_NULL   -> shim_lite3_arr_append_null(b, len, ofs, sz)
      [] val.t = LITE3_TYPE_BOOL   -> shim_lite3_arr_append_bool(b, len, ofs, sz, val.v[1])
      [] val.t = LITE3_TYPE_I64    -> shim_lite3_arr_append_i64(b, len, ofs, sz, val.v[1])
      [] val.t = LITE3_TYPE_F64    -> shim_lite3_arr_append_f64(b, len, ofs, sz, val.v[1])
      [] val.t = LITE3_TYPE_STRING -> shim_lite3_arr_append_str(b, len, ofs, sz, val.v, Len(val.v))
      [] val.t = LITE3_TYPE_BYTES  -> shim_lite3_arr_append_bytes(b, len, ofs, sz, val.v, Len(val.v))
      [] val.t = LITE3_TYPE_OBJECT -> shim_lite3_arr_append_obj(b, len, ofs, sz)
      [] val.t = LITE3_TYPE_ARRAY  -> shim_lite3_arr_append_arr(b, len, ofs, sz)

ShimGet(b, len, ofs, key, t) ==
    CASE t = LITE3_TYPE_BOOL   -> shim_lite3_get_bool(b, len, ofs, key)
      [] t = LITE3_TYPE_I64    -> shim_lite3_get_i64(b, len, ofs, key)
      [] t = LITE3_TYPE_F64    -> shim_lite3_get_f64(b, len, ofs, key)
      [] t = LITE3_TYPE_STRING -> shim_lite3_get_str(b, len, ofs, key)
      [] t = LITE3_TYPE_BYTES  -> shim_lite3_get_bytes(b, len, ofs, key)
      [] t = LITE3_TYPE_OBJECT -> shim_lite3_get_obj(b, len, ofs, key)
      [] t = LITE3_TYPE_ARRAY  -> shim_lite3_get_arr(b, len, ofs, key)

ShimArrGet(b, len, ofs, index, t) ==
    CASE t = LITE3_TYPE_BOOL   -> shim_lite3_arr_get_bool(b, len, ofs, index)
      [] t = LITE3_TYPE_I64    -> shim_lite3_arr_get_i64(b, len, ofs, index)
      [] t = LITE3_TYPE_F64    -> shim_lite3_arr_get_f64(b, len, ofs, index)
      [] t = LITE3_TYPE_STRING -> shim_lite3_arr_get_str(b, len, ofs, index)
      [] t = LITE3_TYPE_BYTES  -> shim_lite3_arr_get_bytes(b, len, ofs, index)
      [] t = LITE3_TYPE_OBJECT -> shim_lite3_arr_get_obj(b, len, ofs, index)
      [] t = LITE3_TYPE_ARRAY  -> shim_lite3_arr_get_arr(b, len, ofs, index)


ShimCtxSet(c, ofs, key, val, ok) ==
    CASE val.t = LITE3_TYPE_NULL   -> shim_lite3_ctx_set_null(c, ofs, key, ok)
      [] val.t = LITE3_TYPE_BOOL   -> shim_lite3_ctx_set_bool(c, ofs, key, val.v[1], ok)
      [] val.t = LITE3_TYPE_I64    -> shim_lite3_ctx_set_i64(c, ofs, key, val.v[1], ok)
      [] val.t = LITE3_TYPE_F64    -> shim_lite3_ctx_set_f64(c, ofs, key, val.v[1], ok)
      [] val.t = LITE3_TYPE_STRING -> shim_lite3_ctx_set_str(c, ofs, key, val.v, Len(val.v), ok)
      [] val.t = LITE3_TYPE_BYTES  -> shim_lite3_ctx_set_bytes(c, ofs, key, val.v, Len(val.v), ok)
      [] val.t = LITE3_TYPE_OBJECT -> shim_lite3_ctx_set_obj(c, ofs, key, ok)
      [] val.t = LITE3_TYPE_ARRAY  -> shim_lite3_ctx_set_arr(c, ofs, key, ok)

ShimCtxAppend(c, ofs, val, ok) ==
    CASE val.t = LITE3_TYPE_NULL   -> shim_lite3_ctx_arr_append_null(c, ofs, ok)
      [] val.t = LITE3_TYPE_BOOL   -> shim_lite3_ctx_arr_append_bool(c, ofs, val.v[1], ok)
      [] val.t = LITE3_TYPE_I64    -> shim_lite3_ctx_arr_append_i64(c, ofs, val.v[1], ok)
      [] val.t = LITE3_TYPE_F64    -> shim_lite3_ctx_arr_append_f64(c, ofs, val.v[1], ok)
      [] val.t = LITE3_TYPE_STRING -> shim_lite3_ctx_arr_append_str(c, ofs, val.v, Len(val.v), ok)
      [] val.t = LITE3_TYPE_BYTES  -> shim_lite3_ctx_arr_append_bytes(c, ofs, val.v, Len(val.v), ok)
      [] val.t = LITE3_TYPE_OBJECT -> shim_lite3_ctx_arr_append_obj(c, ofs, ok)
      [] val.t = LITE3_TYPE_ARRAY  -> shim_lite3_ctx_arr_append_arr(c, ofs, ok)

ShimCtxGet(c, ofs, key, t) ==
    CASE t = LITE3_TYPE_BOOL   -> shim_lite3_ctx_get_bool(c, ofs, key)
      [] t = LITE3_TYPE_I64    -> shim_lite3_ctx_get_i64(c, ofs, key)
      [] t = LITE3_TYPE_F64    -> shim_lite3_ctx_get_f64(c, ofs, key)
      [] t = LITE3_TYPE_STRING -> shim_lite3_ctx_get_str(c, ofs, key)
      [] t = LITE3_TYPE_BYTES  -> shim_lite3_ctx_get_bytes(c, ofs, key)
      [] t = LITE3_TYPE_OBJECT -> shim_lite3_ctx_get_obj(c, ofs, key)
      [] t = LITE3_TYPE_ARRAY  -> shim_lite3_ctx_get_arr(c, ofs, key)

ShimCtxArrGet(c, ofs, index, t) ==
    CASE t = LITE3_TYPE_BOOL   -> shim_lite3_ctx_arr_get_bool(c, ofs, index)
      [] t = LITE3_TYPE_I64    -> shim_lite3_ctx_arr_get_i64(c, ofs, index)
      [] t = LITE3_TYPE_F64    -> shim_lite3_ctx_arr_get_f64(c, ofs, index)
      [] t = LITE3_TYPE_STRING -> shim_lite3_ctx_arr_get_str(c, ofs, index)
      [] t = LITE3_TYPE_BYTES  -> shim_lite3_ctx_arr_get_bytes(c, ofs, index)
      [] t = LITE3_TYPE_OBJECT -> shim_lite3_ctx_arr_get_obj(c, ofs, index)
      [] t = LITE3_TYPE_ARRAY  -> shim_lite3_ctx_arr_get_arr(c, ofs, index)

(***************************************************************************)
(* The JSON codec as built here: lite3_json_disabled.c.  Every entry point *)
(* ignores its arguments.  A result carries the memory the call could have *)
(* written (buf and *out_buflen, or json_buf) as the call leaves it.       *)
(***************************************************************************)
JsonBufSz == 2
EINVAL == "EINVAL"

lite3_json_disabled_error == [ret |-> -1, errno |-> EINVAL]

lite3_json_dec(b, len, sz, json_str, json_len) ==
    [ret |-> lite3_json_disabled_error.ret, errno |-> lite3_json_disabled_error.errno,
     buf |-> b, buflen |-> len]

lite3_json_dec_file(b, len, sz, path) ==
    [ret |-> lite3_json_disabled_error.ret, errno |-> lite3_json_disabled_error.errno,
     buf |-> b, buflen |-> len]

lite3_json_dec_fp(b, len, sz, fp) ==
    [ret |-> lite3_json_disabled_error.ret, errno |-> lite3_json_disabled_error.errno,
     buf |-> b, buflen |-> len]

lite3_json_print(b, len, ofs) ==
    [ret |-> lite3_json_disabled_error.ret, errno |-> lite3_json_disabled_error.errno]

\* out_len is NULL or points at the caller's size_t
lite3_json_enc(b, len, ofs, out_len) ==
    [ret |-> NULL, errno |-> EINVAL,
     out |-> IF out_len # NULL THEN [OutNone EXCEPT !.len = 0, !.w = {"out_len"}]
             ELSE OutNone]

lite3_json_enc_pretty(b, len, ofs, out_len) ==
    [ret |-> NULL, errno |-> EINVAL,
     out |-> IF out_len # NULL THEN [OutNone EXCEPT !.len = 0, !.w = {"out_len"}]
             ELSE OutNone]

\* mutant: a stub answering as a codec that wrote an empty text
lite3_json_enc_buf_empty(b, len, ofs, jb, json_bufsz) ==
    [ret |-> 0, errno |-> "", json_buf |-> jb]

lite3_json_enc_buf(b, len, ofs, jb, json_bufsz) ==
    [ret |-> lite3_json_disabled_error.ret, errno |-> lite3_json_disabled_error.errno,
     json_buf |-> jb]

lite3_json_enc_pretty_buf(b, len, ofs, jb, json_bufsz) ==
    [ret |-> lite3_json_disabled_error.ret, errno |-> lite3_json_disabled_error.errno,
     json_buf |-> jb]

\* the shim, JSON (lite3_shim.c 292-312, 433)
shim_lite3_json_dec(b, len, sz, json_str, json_len) ==
    lite3_json_dec(b, len, sz, json_str, json_len)
shim_lite3_json_enc(b, len, ofs, out_len) == lite3_json_enc(b, len, ofs, out_len)
shim_lite3_json_enc_pretty(b, len, ofs, out_len) == lite3_json_enc_pretty(b, len, ofs, out_len)
shim_lite3_json_enc_buf(b, len, ofs, jb, json_bufsz) ==
    lite3_json_enc_buf(b, len, ofs, jb, json_bufsz)

\* decode into the container (spec.md 4.3, 4.5): the bounded decode on the
\* owned buffer, reallocating and retrying on a capacity error only
lite3_ctx_json_dec(c, json_str, json_len, ok) ==
    LET r == lite3_json_dec(c.buf, c.buflen, c.bufsz, json_str, json_len) IN
    IF r.ret < 0 /\ r.errno = "CapacityExceeded"
    THEN LET g == lite3_ctx_grow(c, c.bufsz + 1, ok) IN
         IF g.ret < 0 THEN g
         ELSE LET q == lite3_json_dec(g.ctx.buf, g.ctx.buflen, g.ctx.bufsz,
                                      json_str, json_len) IN
              CRes(q.ret, q.errno, [g.ctx EXCEPT !.buf = q.buf, !.buflen = q.buflen], NULL)
    ELSE CRes(r.ret, r.errno, [c EXCEPT !.buf = r.buf, !.buflen = r.buflen], NULL)

shim_lite3_ctx_json_dec(c, json_str, json_len, ok) ==
    lite3_ctx_json_dec(c, json_str, json_len, ok)

(***************************************************************************)
(* State.                                                                  *)
(*   buf, buflen, bufsz  the caller's buffer in bounded mode: MemSize      *)
(*                       cells of memory of which the first bufsz are the  *)
(*                       buffer; buflen is the caller's *inout_buflen      *)
(*   ctx                 the growable container: buf, buflen, bufsz        *)
(*   ret, errno          result of the last call and the C errno           *)
(*   out                 out-parameters the last call wrote                *)
(*   json_buf            the caller's buffer for JSON text                  *)
(*   call                the last call and its arguments                   *)
(*   iter                the iterator cursor                               *)
(* History, for stating the properties:                                    *)
(*   lastSet             key -> value of its last successful set at root   *)
(*   keyOrder            keys of the root object in order of first set     *)
(*   appended            values successfully appended to the root array    *)
(*   seen                entries the cursor has yielded since iter_create  *)
(***************************************************************************)
VARIABLES buf, buflen, bufsz, ctx, json_buf, ret, errno, out, call, iter,
          lastSet, keyOrder, appended, seen

vars == <<buf, buflen, bufsz, ctx, json_buf, ret, errno, out, call, iter,
          lastSet, keyOrder, appended, seen>>

\* inputs
Keys == {<<1>>, <<2>>}
Scalars == {Val(LITE3_TYPE_NULL, <<>>), Val(LITE3_TYPE_BOOL, <<1>>),
            Val(LITE3_TYPE_I64, <<1>>), Val(LITE3_TYPE_I64, <<2>>),
            Val(LITE3_TYPE_F64, <<3>>), Val(LITE3_TYPE_STRING, <<7>>),
            Val(LITE3_TYPE_STRING, <<7, 8>>), Val(LITE3_TYPE_BYTES, <<9>>)}
Containers == {Val(LITE3_TYPE_OBJECT, <<>>), Val(LITE3_TYPE_ARRAY, <<>>)}
Values == Scalars \cup Containers
GetTypes == {LITE3_TYPE_BOOL, LITE3_TYPE_I64, LITE3_TYPE_F64, LITE3_TYPE_STRING,
             LITE3_TYPE_BYTES, LITE3_TYPE_OBJECT, LITE3_TYPE_ARRAY}
RootTypes == {LITE3_TYPE_OBJECT, LITE3_TYPE_ARRAY}
Indexes == 0..3

NoVal == Val(LITE3_TYPE_INVALID, <<>>)
NoCall == [op |-> "none", ofs |-> 0, key |-> <<>>, val |-> NoVal, index |-> 0,
           pre |-> 0, ok |-> TRUE]
Call(op, ofs, key, val, index, pre) ==
    [op |-> op, ofs |-> ofs, key |-> key, val |-> val, index |-> index, pre |-> pre,
     ok |-> TRUE]
NoIter == [ofs |-> NULL, pos |-> NULL, remaining |-> 0, isobj |-> FALSE]
NoSeen == [items |-> <<>>, fresh |-> FALSE, done |-> FALSE]

\* memory nobody has written
Blank == [i \in 1..MemSize |-> Poison]

\* a buffer initialised as an empty root container (lite3_init_obj/_arr)
lite3_init(m, sz, t) ==
    IF HeaderSize > sz THEN Fail("CapacityExceeded", m, 0)
    ELSE Res(0, "", Write(m, 0, <<t, 0, 0, 0>>), HeaderSize, 0)

NoCtx == lite3_ctx_create_with_size(0)

\* a text buffer nobody has written
NoText == [i \in 1..JsonBufSz |-> Poison]

InitHistory ==
    /\ lastSet = [k \in Keys |-> NoVal]
    /\ keyOrder = <<>>
    /\ appended = <<>>
    /\ seen = NoSeen

InitBuf ==
    /\ bufsz \in (MaxCap - CapSpread)..MaxCap
    /\ \E t \in RootTypes :
          /\ buf = lite3_init(Blank, bufsz, t).buf
          /\ buflen = lite3_init(Blank, bufsz, t).buflen
    /\ ctx = NoCtx
    /\ ret = 0
    /\ errno = ""
    /\ out = OutNone
    /\ call = NoCall
    /\ json_buf = NoText
    /\ iter = NoIter
    /\ InitHistory

\* a mutation ends the record of what a cursor yielded from the container as
\* it was; that the cursor has signalled done stays on record
Stale(sn) == [items |-> <<>>, fresh |-> FALSE, done |-> sn.done]

\* history after a successful set / append on the root container
SetHistory(r, ofs, key, val) ==
    IF r.ret >= 0 /\ ofs = 0
    THEN /\ lastSet' = [lastSet EXCEPT ![key] = val]
         /\ keyOrder' = IF lastSet[key] = NoVal THEN Append(keyOrder, key) ELSE keyOrder
         /\ seen' = Stale(seen)
    ELSE UNCHANGED <<lastSet, keyOrder, seen>>

AppendHistory(r, ofs, val) ==
    IF r.ret >= 0 /\ ofs = 0
    THEN /\ appended' = Append(appended, val)
         /\ seen' = Stale(seen)
    ELSE UNCHANGED <<appended, seen>>

OfsOut(r, val) ==
    IF r.ret >= 0 /\ val.t \in RootTypes
    THEN [OutNone EXCEPT !.ofs = r.ofs, !.w = {"out_ofs"}]
    ELSE OutNone

(***************************************************************************)
(* Bounded mode: the caller's calls on its own buffer.                     *)
(***************************************************************************)
Set(ofs, key, val) ==
    LET r == ShimSet(buf, buflen, ofs, bufsz, key, val) IN
    /\ buf' = r.buf
    /\ buflen' = r.buflen
    /\ ret' = r.ret
    /\ errno' = IF r.ret < 0 THEN r.errno ELSE errno
    /\ out' = OfsOut(r, val)
    /\ call' = Call("set", ofs, key, val, 0, buflen)
    /\ SetHistory(r, ofs, key, val)
    /\ UNCHANGED <<bufsz, json_buf, ctx, iter, appended>>

ArrAppend(ofs, val) ==
    LET r == ShimAppend(buf, buflen, ofs, bufsz, val) IN
    /\ buf' = r.buf
    /\ buflen' = r.buflen
    /\ ret' = r.ret
    /\ errno' = IF r.ret < 0 THEN r.errno ELSE errno
    /\ out' = OfsOut(r, val)
    /\ call' = Call("append", ofs, <<>>, val, 0, buflen)
    /\ AppendHistory(r, ofs, val)
    /\ UNCHANGED <<bufsz, json_buf, ctx, iter, lastSet, keyOrder>>

\* mutant: a read that terminates the used region with a NUL
Read_scribble(r, c) ==
    /\ buf' = Write(buf, buflen, <<0>>)
    /\ ret' = r.ret
    /\ errno' = IF r.ret < 0 THEN r.errno ELSE errno
    /\ out' = r.out
    /\ call' = c
    /\ UNCHANGED <<buflen, bufsz, json_buf, ctx, iter, lastSet, keyOrder, appended, seen>>

\* a read: buf and buflen are const / by-value arguments
Read(r, c) ==
    /\ ret' = r.ret
    /\ errno' = IF r.ret < 0 THEN r.errno ELSE errno
    /\ out' = r.out
    /\ call' = c
    /\ UNCHANGED <<buf, buflen, bufsz, json_buf, ctx, iter, lastSet, keyOrder, appended, seen>>

Get(ofs, key, t) ==
    Read(ShimGet(buf, buflen, ofs, key, t), Call("get", ofs, key, Val(t, <<>>), 0, buflen))

ArrGet(ofs, index, t) ==
    Read(ShimArrGet(buf, buflen, ofs, index, t),
         Call("arr_get", ofs, <<>>, Val(t, <<>>), index, buflen))

GetType(ofs, key) ==
    Read(RRes(shim_lite3_get_type(buf, buflen, ofs, key), "", OutNone),
         Call("get_type", ofs, key, NoVal, 0, buflen))

ArrGetType(ofs, index) ==
    Read(RRes(shim_lite3_arr_get_type(buf, buflen, ofs, index), "", OutNone),
         Call("arr_get_type", ofs, <<>>, NoVal, index, buflen))

Exists(ofs, key) ==
    Read(RRes(shim_lite3_exists(buf, buflen, ofs, key), "", OutNone),
         Call("exists", ofs, key, NoVal, 0, buflen))

CountCall(ofs) ==
    Read(shim_lite3_count(buf, buflen, ofs), Call("count", ofs, <<>>, NoVal, 0, buflen))

\* offsets the caller passes: the root
Offsets == {0}

NextBuf ==
    \/ \E o \in Offsets, k \in Keys, v \in Values : Set(o, k, v)
    \/ \E o \in Offsets, v \in Values : ArrAppend(o, v)

SpecBuf == InitBuf /\ [][NextBuf]_vars

(***************************************************************************)
(* Properties of bounded-mode mutation, checked under SpecBuf.             *)
(***************************************************************************)
EncSize(val) == Len(Encode(val))
RootIs(t) == At(buf, 0) = t
Mutation(c) == c.op \in {"set", "append"}

\* cells the call of c must add to the used region, from the history alone:
\* nothing for a same-size overwrite, else the whole entry
Needed(c) ==
    IF c.op \in {"set", "ctx_set"}
    THEN IF lastSet[c.key] # NoVal /\ EncSize(lastSet[c.key]) = EncSize(c.val)
         THEN 0
         ELSE 2 + Len(c.key) + EncSize(c.val)
    ELSE 1 + EncSize(c.val)

RightRoot(c) ==
    \/ c.op = "set" /\ RootIs(LITE3_TYPE_OBJECT)
    \/ c.op = "append" /\ RootIs(LITE3_TYPE_ARRAY)

CapacityExceeded == ret < 0 /\ errno = "CapacityExceeded"

\* nothing at or beyond position bufsz is written, and buflen <= bufsz
WithinCapacity ==
    /\ buflen <= bufsz
    /\ \A i \in (bufsz + 1)..MemSize : buf[i] = Poison

\* C1: in bounded mode no set/append writes at or beyond the capacity, the
\* length never exceeds it, and exactly the calls that would need more than
\* the capacity report CapacityExceeded, leaving the length as it was.
C1_CapacitySafety ==
    /\ WithinCapacity
    /\ [][/\ WithinCapacity'
          /\ (Mutation(call') /\ RightRoot(call')) =>
                /\ (buflen + Needed(call') > bufsz) <=> CapacityExceeded'
                /\ CapacityExceeded' => buflen' = buflen]_vars

C1_Witness == call.op = "set" /\ CapacityExceeded /\ buflen > HeaderSize

\* C2: a set/append that returns an error leaves the bytes and the length
\* exactly as they were.
C2_FailedMutationUnchanged ==
    [][(Mutation(call') /\ ret' < 0) => (buf' = buf /\ buflen' = buflen)]_vars

C2_Witness ==
    /\ Mutation(call) /\ ret < 0 /\ buflen > HeaderSize
    /\ errno \in {"CapacityExceeded", "TypeMismatch"}

C2_WitnessTypeError == call.op = "append" /\ ret < 0 /\ errno = "TypeMismatch"

\* C10: the length never decreases; a same-size overwrite leaves it as it
\* is, every other successful set and every successful append grows it.
C10_LengthMonotone ==
    [][/\ buflen' >= buflen
       /\ (Mutation(call') /\ ret' >= 0) =>
             IF Needed(call') = 0 THEN buflen' = buflen ELSE buflen' > buflen]_vars

\* an existing key was overwritten in place, with a value of another variant
C10_Witness ==
    /\ call.op = "set" /\ ret >= 0 /\ buflen = call.pre
    /\ Len(keyOrder) = 2

\* an existing key was overwritten with a smaller value and the length grew
C10_WitnessShrinkingValue ==
    /\ call.op = "set" /\ ret >= 0 /\ buflen > call.pre
    /\ call.val.t = LITE3_TYPE_NULL /\ Len(keyOrder) = 1
    /\ buflen > HeaderSize + 2 + Len(call.key) + EncSize(call.val)


(***************************************************************************)
(* Bounded mode with reads: a larger buffer, fewer values.                 *)
(***************************************************************************)
ReadCap == MaxCap
FewValues == {Val(LITE3_TYPE_NULL, <<>>), Val(LITE3_TYPE_I64, <<1>>),
              Val(LITE3_TYPE_I64, <<2>>), Val(LITE3_TYPE_STRING, <<7>>)}

InitRead ==
    /\ bufsz = ReadCap
    /\ \E t \in RootTypes :
          /\ buf = lite3_init(Blank, bufsz, t).buf
          /\ buflen = lite3_init(Blank, bufsz, t).buflen
    /\ ctx = NoCtx
    /\ ret = 0
    /\ errno = ""
    /\ out = OutNone
    /\ call = NoCall
    /\ json_buf = NoText
    /\ iter = NoIter
    /\ InitHistory

NextRead ==
    \/ \E o \in Offsets, k \in Keys, v \in FewValues : Set(o, k, v)
    \/ \E o \in Offsets, v \in FewValues : ArrAppend(o, v)
    \/ \E o \in Offsets, k \in Keys, t \in GetTypes : Get(o, k, t)
    \/ \E o \in Offsets, i \in Indexes, t \in GetTypes : ArrGet(o, i, t)
    \/ \E o \in Offsets, k \in Keys : GetType(o, k)
    \/ \E o \in Offsets, i \in Indexes : ArrGetType(o, i)
    \/ \E o \in Offsets, k \in Keys : Exists(o, k)
    \/ \E o \in Offsets : CountCall(o)

SpecRead == InitRead /\ [][NextRead]_vars


(***************************************************************************)
(* Iteration in bounded mode.                                              *)
(***************************************************************************)
IterCap == MaxCap + 4
IterValues == {Val(LITE3_TYPE_NULL, <<>>), Val(LITE3_TYPE_I64, <<1>>)}

InitIter ==
    /\ bufsz = IterCap
    /\ \E t \in RootTypes :
          /\ buf = lite3_init(Blank, bufsz, t).buf
          /\ buflen = lite3_init(Blank, bufsz, t).buflen
    /\ ctx = NoCtx
    /\ ret = 0
    /\ errno = ""
    /\ out = OutNone
    /\ call = NoCall
    /\ json_buf = NoText
    /\ iter = NoIter
    /\ InitHistory

IterCreate(ofs) ==
    LET r == shim_lite3_iter_create(buf, buflen, ofs, iter) IN
    /\ iter' = r.iter
    /\ ret' = r.ret
    /\ errno' = IF r.ret < 0 THEN r.errno ELSE errno
    /\ out' = r.out
    /\ call' = Call("iter_create", ofs, <<>>, NoVal, 0, buflen)
    /\ seen' = IF r.ret >= 0 THEN [items |-> <<>>, fresh |-> TRUE, done |-> FALSE]
               ELSE seen
    /\ UNCHANGED <<buf, buflen, bufsz, json_buf, ctx, lastSet, keyOrder, appended>>

\* what the caller reads through the out-parameters of a yield
Yielded(o) ==
    [haskey |-> o.ptr # NULL,
     key    |-> IF o.ptr # NULL THEN Slice(buf, o.ptr, o.len) ELSE <<>>,
     ofs    |-> o.ofs]

IterNext ==
    LET r == shim_lite3_iter_next(buf, buflen, iter) IN
    /\ iter' = r.iter
    /\ ret' = r.ret
    /\ errno' = IF r.ret < 0 THEN r.errno ELSE errno
    /\ out' = r.out
    /\ call' = Call("iter_next", iter.ofs, <<>>, NoVal, 0, buflen)
    /\ seen' = IF r.ret = 0 /\ seen.fresh
               THEN [seen EXCEPT !.items = Append(@, Yielded(r.out))]
               ELSE IF r.ret = 1 THEN [seen EXCEPT !.done = TRUE]
               ELSE seen
    /\ UNCHANGED <<buf, buflen, bufsz, json_buf, ctx, lastSet, keyOrder, appended>>

NextIter ==
    \/ \E o \in Offsets, k \in Keys, v \in IterValues : Set(o, k, v)
    \/ \E o \in Offsets, v \in IterValues : ArrAppend(o, v)
    \/ \E o \in Offsets : IterCreate(o)
    \/ IterNext

SpecIter == InitIter /\ [][NextIter]_vars


(***************************************************************************)
(* Properties of iteration, checked under SpecIter.                        *)
(***************************************************************************)
IsPrefix(a, b) == Len(a) <= Len(b) /\ \A i \in 1..Len(a) : a[i] = b[i]

\* what a traversal of the root has to yield, from the history: the keys in
\* order of first set, each with the offset get-by-key resolves; the array
\* elements in index order, without keys
ExpectedItems ==
    IF RootIs(LITE3_TYPE_OBJECT)
    THEN [i \in 1..Len(keyOrder) |->
            [haskey |-> TRUE, key |-> keyOrder[i],
             ofs |-> lite3_find(buf, buflen, 0, keyOrder[i]).v]]
    ELSE [i \in 1..Len(appended) |->
            [haskey |-> FALSE, key |-> <<>>,
             ofs |-> lite3_arr_find(buf, buflen, 0, i - 1).v]]

ExpectedValue(i) ==
    IF RootIs(LITE3_TYPE_OBJECT) THEN lastSet[keyOrder[i]] ELSE appended[i]

\* C6: a fresh iterator over the unmodified root yields its N entries, an
\* object's (key, value offset) pairs in insertion order, an array's keyless
\* entries in index order, and signals done after exactly N; every fresh
\* iterator yields this same sequence.
C6_IterationOrder ==
    (seen.fresh /\ iter.ofs = 0) =>
        /\ IsPrefix(seen.items, ExpectedItems)
        /\ \A i \in 1..Len(seen.items) :
              Decode(buf, seen.items[i].ofs) = ExpectedValue(i)
        /\ seen.done => Len(seen.items) = Len(ExpectedItems)
        /\ call.op = "iter_next" => ret \in {0, 1}
        /\ (call.op = "iter_next" /\ ret = 1) => seen.done

\* both keys yielded and done signalled, after the first key's entry was
\* relocated behind the second's
C6_Witness ==
    /\ seen.fresh /\ seen.done /\ RootIs(LITE3_TYPE_OBJECT)
    /\ Len(seen.items) = 2
    /\ seen.items[1].ofs > seen.items[2].ofs

C6_WitnessArray ==
    /\ seen.fresh /\ seen.done /\ RootIs(LITE3_TYPE_ARRAY)
    /\ Len(seen.items) = 3


(***************************************************************************)
(* Content of a container and what the reads return, checked under SpecKv  *)
(* (mutations on a larger buffer) and SpecRead.                            *)
(***************************************************************************)
KvCap == MaxCap + 4

InitKv ==
    /\ bufsz = KvCap
    /\ \E t \in RootTypes :
          /\ buf = lite3_init(Blank, bufsz, t).buf
          /\ buflen = lite3_init(Blank, bufsz, t).buflen
    /\ ctx = NoCtx
    /\ ret = 0
    /\ errno = ""
    /\ out = OutNone
    /\ call = NoCall
    /\ json_buf = NoText
    /\ iter = NoIter
    /\ InitHistory

NextKv ==
    \/ \E o \in Offsets, k \in Keys, v \in FewValues : Set(o, k, v)
    \/ \E o \in Offsets, v \in FewValues : ArrAppend(o, v)

SpecKv == InitKv /\ [][NextKv]_vars

\* the payload a typed read hands back: the scalar, or the cells of the view
ReadBack(m, o, t) ==
    IF t \in {LITE3_TYPE_STRING, LITE3_TYPE_BYTES} THEN Slice(m, o.ptr, o.len)
    ELSE IF t \in RootTypes THEN <<>>
    ELSE o.val

KeysSet == {k \in Keys : lastSet[k] # NoVal}
LiveSize(k) == 2 + Len(k) + EncSize(lastSet[k])

\* C5: keys are unique: get-by-key returns the value and variant of the last
\* successful set of the key (last write wins), and count is the number of
\* distinct keys set.
C5_LastWriteWins ==
    RootIs(LITE3_TYPE_OBJECT) =>
        /\ \A k \in Keys :
              IF lastSet[k] = NoVal
              THEN /\ shim_lite3_exists(buf, buflen, 0, k) = 0
                   /\ \A t \in GetTypes : ShimGet(buf, buflen, 0, k, t).ret < 0
              ELSE /\ shim_lite3_exists(buf, buflen, 0, k) = 1
                   /\ shim_lite3_get_type(buf, buflen, 0, k) = lastSet[k].t
                   /\ lastSet[k].t \in GetTypes =>
                        LET r == ShimGet(buf, buflen, 0, k, lastSet[k].t) IN
                        /\ r.ret >= 0
                        /\ ReadBack(buf, r.out, lastSet[k].t) = lastSet[k].v
        /\ shim_lite3_count(buf, buflen, 0).ret >= 0
        /\ shim_lite3_count(buf, buflen, 0).out.val = <<Cardinality(KeysSet)>>
        /\ Len(keyOrder) = Cardinality(KeysSet)

\* two keys are set and an overwritten entry has been left behind: more set
\* calls than keys
C5_Witness ==
    /\ RootIs(LITE3_TYPE_OBJECT) /\ Cardinality(KeysSet) = 2
    /\ call.op = "set" /\ ret >= 0 /\ call.val.t = LITE3_TYPE_I64
    /\ buflen > HeaderSize + LiveSize(<<1>>) + LiveSize(<<2>>)

\* C8: the element at index i is the (i+1)-th value appended, count is the
\* number of appends (an append lands at index count and moves nothing), and
\* get-by-index succeeds for 0..count-1 and is out of range from count on.
C8_ArrayAppendIndex ==
    RootIs(LITE3_TYPE_ARRAY) =>
        /\ shim_lite3_count(buf, buflen, 0).out.val = <<Len(appended)>>
        /\ \A i \in 0..(Len(appended) + 1) :
              IF i < Len(appended)
              THEN LET v == appended[i + 1] IN
                   /\ shim_lite3_arr_get_type(buf, buflen, 0, i) = v.t
                   /\ v.t \in GetTypes =>
                        LET r == ShimArrGet(buf, buflen, 0, i, v.t) IN
                        /\ r.ret >= 0
                        /\ ReadBack(buf, r.out, v.t) = v.v
              ELSE /\ shim_lite3_arr_get_type(buf, buflen, 0, i) = LITE3_TYPE_INVALID
                   /\ \A t \in GetTypes :
                        LET r == ShimArrGet(buf, buflen, 0, i, t) IN
                        r.ret < 0 /\ r.errno = "IndexOutOfRange"

C8_Witness ==
    /\ RootIs(LITE3_TYPE_ARRAY) /\ Len(appended) = 3
    /\ call.op = "append" /\ ret >= 0
    /\ appended[1].t = LITE3_TYPE_STRING /\ appended[3] = Val(LITE3_TYPE_I64, <<2>>)

\* C7: a typed get on an existing entry of another variant fails with
\* TypeMismatch and hands back no value; on an absent key it fails with
\* KeyNotFound and on an index >= count with IndexOutOfRange.
C7_TypeMismatchReported ==
    /\ (call.op = "get" /\ RootIs(LITE3_TYPE_OBJECT)) =>
          LET have == lastSet[call.key] IN
          /\ have = NoVal => (ret < 0 /\ errno = "KeyNotFound" /\ out = OutNone)
          /\ (have # NoVal /\ have.t # call.val.t) =>
                (ret < 0 /\ errno = "TypeMismatch" /\ out = OutNone)
          /\ have.t = call.val.t => ret >= 0
    /\ (call.op = "arr_get" /\ RootIs(LITE3_TYPE_ARRAY)) =>
          IF call.index >= Len(appended)
          THEN ret < 0 /\ errno = "IndexOutOfRange" /\ out = OutNone
          ELSE LET have == appended[call.index + 1] IN
               /\ have.t # call.val.t =>
                     (ret < 0 /\ errno = "TypeMismatch" /\ out = OutNone)
               /\ have.t = call.val.t => ret >= 0

\* get_bool on a key holding a string
C7_Witness ==
    /\ call.op = "get" /\ call.val.t = LITE3_TYPE_BOOL
    /\ lastSet[call.key].t = LITE3_TYPE_STRING
    /\ ret < 0 /\ errno = "TypeMismatch"

C7_WitnessIndex ==
    /\ call.op = "arr_get" /\ call.val.t = LITE3_TYPE_I64 /\ call.index = 0
    /\ Len(appended) = 2 /\ appended[1].t = LITE3_TYPE_NULL
    /\ ret < 0 /\ errno = "TypeMismatch"


(***************************************************************************)
(* Growable mode: calls on a context.                                      *)
(***************************************************************************)
CtxValues == {Val(LITE3_TYPE_NULL, <<>>), Val(LITE3_TYPE_I64, <<1>>),
              Val(LITE3_TYPE_I64, <<2>>)}

CtxElems == {Val(LITE3_TYPE_I64, <<1>>), Val(LITE3_TYPE_STRING, <<7>>)}

\* a context created with the smallest size that holds a root, initialised as
\* an empty object or array
InitCtx ==
    /\ \E t \in RootTypes :
          ctx = IF t = LITE3_TYPE_OBJECT
                THEN shim_lite3_ctx_init_obj(
                        shim_lite3_ctx_create_with_size(HeaderSize + 1), TRUE).ctx
                ELSE shim_lite3_ctx_init_arr(
                        shim_lite3_ctx_create_with_size(HeaderSize + 1), TRUE).ctx
    /\ buf = Blank
    /\ buflen = 0
    /\ bufsz = 0
    /\ ret = 0
    /\ errno = ""
    /\ out = OutNone
    /\ call = NoCall
    /\ json_buf = NoText
    /\ iter = NoIter
    /\ InitHistory

CtxSet(ofs, key, val, ok) ==
    LET r == ShimCtxSet(ctx, ofs, key, val, ok) IN
    /\ ctx' = r.ctx
    /\ ret' = r.ret
    /\ errno' = IF r.ret < 0 THEN r.errno ELSE errno
    /\ out' = OfsOut(r, val)
    /\ call' = [Call("ctx_set", ofs, key, val, 0, ctx.buflen) EXCEPT !.ok = ok]
    /\ SetHistory(r, ofs, key, val)
    /\ UNCHANGED <<buf, buflen, bufsz, json_buf, iter, appended>>

CtxAppend(ofs, val, ok) ==
    LET r == ShimCtxAppend(ctx, ofs, val, ok) IN
    /\ ctx' = r.ctx
    /\ ret' = r.ret
    /\ errno' = IF r.ret < 0 THEN r.errno ELSE errno
    /\ out' = OfsOut(r, val)
    /\ call' = [Call("ctx_append", ofs, <<>>, val, 0, ctx.buflen) EXCEPT !.ok = ok]
    /\ AppendHistory(r, ofs, val)
    /\ UNCHANGED <<buf, buflen, bufsz, json_buf, iter, lastSet, keyOrder>>

NextCtx ==
    \/ \E o \in Offsets, k \in Keys, v \in CtxValues, ok \in BOOLEAN : CtxSet(o, k, v, ok)
    \/ \E o \in Offsets, v \in CtxElems, ok \in BOOLEAN : CtxAppend(o, v, ok)

SpecCtx == InitCtx /\ [][NextCtx]_vars


(***************************************************************************)
(* Properties of the growable container, checked under SpecCtx.            *)
(***************************************************************************)
CtxRootIs(t) == At(shim_lite3_ctx_buf(ctx), 0) = t
CtxMutation(c) == c.op \in {"ctx_set", "ctx_append"}
CtxRightRoot(c) ==
    \/ c.op = "ctx_set" /\ CtxRootIs(LITE3_TYPE_OBJECT)
    \/ c.op = "ctx_append" /\ CtxRootIs(LITE3_TYPE_ARRAY)
AllocationFailure == ret < 0 /\ errno = "AllocationFailure"

\* C3: in growable mode, whatever reallocations the sets have forced, every
\* key ever set reads back with the value and variant of its last
\* successful set.
C3_GrowthPreservesContent ==
    CtxRootIs(LITE3_TYPE_OBJECT) =>
        \A k \in Keys :
            lastSet[k] # NoVal =>
                /\ shim_lite3_ctx_exists(ctx, 0, k) = 1
                /\ shim_lite3_ctx_get_type(ctx, 0, k) = lastSet[k].t
                /\ lastSet[k].t \in GetTypes =>
                      LET r == ShimCtxGet(ctx, 0, k, lastSet[k].t) IN
                      /\ r.ret >= 0
                      /\ ReadBack(shim_lite3_ctx_buf(ctx), r.out, lastSet[k].t) = lastSet[k].v

\* both keys set, and the last set forced the second reallocation
C3_Witness ==
    /\ CtxRootIs(LITE3_TYPE_OBJECT) /\ Cardinality(KeysSet) = 2
    /\ call.op = "ctx_set" /\ ret >= 0
    /\ shim_lite3_ctx_bufsz(ctx) = 4 * (HeaderSize + 1)
    /\ call.pre <= 2 * (HeaderSize + 1)
    /\ shim_lite3_ctx_buflen(ctx) > 2 * (HeaderSize + 1)

\* C4: a set/append that needs a reallocation whose allocation fails
\* reports AllocationFailure, and after an AllocationFailure the container's
\* bytes, length and capacity are those before the call.
C4_AllocationFailureAtomic ==
    [][CtxMutation(call') =>
          /\ AllocationFailure' =>
                /\ shim_lite3_ctx_buf(ctx') = shim_lite3_ctx_buf(ctx)
                /\ shim_lite3_ctx_buflen(ctx') = shim_lite3_ctx_buflen(ctx)
                /\ shim_lite3_ctx_bufsz(ctx') = shim_lite3_ctx_bufsz(ctx)
          /\ ( /\ CtxRightRoot(call')
               /\ shim_lite3_ctx_buflen(ctx) + Needed(call') > shim_lite3_ctx_bufsz(ctx)
               /\ ~call'.ok ) => AllocationFailure']_vars

\* the allocator refused the second reallocation of a container holding data
C4_Witness ==
    /\ call.op = "ctx_set" /\ ~call.ok /\ AllocationFailure
    /\ shim_lite3_ctx_bufsz(ctx) = 2 * (HeaderSize + 1)
    /\ shim_lite3_ctx_buflen(ctx) > HeaderSize + 1

(***************************************************************************)
(* The JSON codec's entry points, called on a bounded buffer and on a      *)
(* container while both are being filled.                                  *)
(***************************************************************************)
JsonCap == MaxCap - 3
JsonValues == {Val(LITE3_TYPE_NULL, <<>>), Val(LITE3_TYPE_I64, <<1>>)}
JsonTexts == {[str |-> "{}", len |-> 2], [str |-> "[1,2,3]", len |-> 7],
              [str |-> "{\"a\":}", len |-> 6]}
Paths == {"doc.json"}
Streams == {NULL, 0}
OutLens == {NULL, 0}
JsonBufSizes == {0, JsonBufSz}
JsonOps == {"json_dec", "json_dec_file", "json_dec_fp", "json_print", "json_enc",
            "json_enc_pretty", "json_enc_buf", "json_enc_pretty_buf", "ctx_json_dec"}

InitJson ==
    /\ bufsz = JsonCap
    /\ \E t \in RootTypes :
          /\ buf = lite3_init(Blank, bufsz, t).buf
          /\ buflen = lite3_init(Blank, bufsz, t).buflen
    /\ ctx = shim_lite3_ctx_init_obj(
                shim_lite3_ctx_create_with_size(HeaderSize + 1), TRUE).ctx
    /\ json_buf = NoText
    /\ ret = 0
    /\ errno = ""
    /\ out = OutNone
    /\ call = NoCall
    /\ iter = NoIter
    /\ InitHistory

\* a decode into the caller's buffer: buf and *out_buflen are the call's to write
Decoded(r, op) ==
    /\ buf' = r.buf
    /\ buflen' = r.buflen
    /\ ret' = r.ret
    /\ errno' = IF r.ret < 0 THEN r.errno ELSE errno
    /\ out' = OutNone
    /\ call' = Call(op, 0, <<>>, NoVal, 0, buflen)
    /\ UNCHANGED <<bufsz, ctx, json_buf, iter, lastSet, keyOrder, appended, seen>>

JsonDec(text) ==
    Decoded(shim_lite3_json_dec(buf, buflen, bufsz, text.str, text.len), "json_dec")

JsonDecFile(path) == Decoded(lite3_json_dec_file(buf, buflen, bufsz, path), "json_dec_file")

JsonDecFp(fp) == Decoded(lite3_json_dec_fp(buf, buflen, bufsz, fp), "json_dec_fp")

JsonPrint(ofs) ==
    LET r == lite3_json_print(buf, buflen, ofs) IN
    /\ ret' = r.ret
    /\ errno' = IF r.ret < 0 THEN r.errno ELSE errno
    /\ out' = OutNone
    /\ call' = Call("json_print", ofs, <<>>, NoVal, 0, buflen)
    /\ UNCHANGED <<buf, buflen, bufsz, ctx, json_buf, iter, lastSet, keyOrder, appended, seen>>

\* an encode returning owned text: NULL on failure, *out_len the call's to write
Encoded(r, op, ofs) ==
    /\ ret' = r.ret
    /\ errno' = IF r.ret = NULL THEN r.errno ELSE errno
    /\ out' = r.out
    /\ call' = Call(op, ofs, <<>>, NoVal, 0, buflen)
    /\ UNCHANGED <<buf, buflen, bufsz, ctx, json_buf, iter, lastSet, keyOrder, appended, seen>>

JsonEnc(ofs, out_len) == Encoded(shim_lite3_json_enc(buf, buflen, ofs, out_len), "json_enc", ofs)

JsonEncPretty(ofs, out_len) ==
    Encoded(shim_lite3_json_enc_pretty(buf, buflen, ofs, out_len), "json_enc_pretty", ofs)

\* an encode into the caller's text buffer: json_buf is the call's to write
EncodedInto(r, op, ofs) ==
    /\ json_buf' = r.json_buf
    /\ ret' = r.ret
    /\ errno' = IF r.ret < 0 THEN r.errno ELSE errno
    /\ out' = OutNone
    /\ call' = Call(op, ofs, <<>>, NoVal, 0, buflen)
    /\ UNCHANGED <<buf, buflen, bufsz, ctx, iter, lastSet, keyOrder, appended, seen>>

JsonEncBuf(ofs, json_bufsz) ==
    EncodedInto(shim_lite3_json_enc_buf(buf, buflen, ofs, json_buf, json_bufsz),
                "json_enc_buf", ofs)

JsonEncPrettyBuf(ofs, json_bufsz) ==
    EncodedInto(lite3_json_enc_pretty_buf(buf, buflen, ofs, json_buf, json_bufsz),
                "json_enc_pretty_buf", ofs)

CtxJsonDec(text, ok) ==
    LET r == shim_lite3_ctx_json_dec(ctx, text.str, text.len, ok) IN
    /\ ctx' = r.ctx
    /\ ret' = r.ret
    /\ errno' = IF r.ret < 0 THEN r.errno ELSE errno
    /\ out' = OutNone
    /\ call' = [Call("ctx_json_dec", 0, <<>>, NoVal, 0, ctx.buflen) EXCEPT !.ok = ok]
    /\ UNCHANGED <<buf, buflen, bufsz, json_buf, iter, lastSet, keyOrder, appended, seen>>

NextJson ==
    \/ \E o \in Offsets, k \in Keys, v \in JsonValues : Set(o, k, v)
    \/ \E o \in Offsets, v \in JsonValues : ArrAppend(o, v)
    \/ \E o \in Offsets, v \in JsonValues : CtxSet(o, <<1>>, v, TRUE)
    \/ \E x \in JsonTexts : JsonDec(x)
    \/ \E p \in Paths : JsonDecFile(p)
    \/ \E fp \in Streams : JsonDecFp(fp)
    \/ \E o \in Offsets : JsonPrint(o)
    \/ \E o \in Offsets, l \in OutLens : JsonEnc(o, l)
    \/ \E o \in Offsets, l \in OutLens : JsonEncPretty(o, l)
    \/ \E o \in Offsets, n \in JsonBufSizes : JsonEncBuf(o, n)
    \/ \E o \in Offsets, n \in JsonBufSizes : JsonEncPrettyBuf(o, n)
    \/ \E x \in JsonTexts, ok \in BOOLEAN : CtxJsonDec(x, ok)

SpecJson == InitJson /\ [][NextJson]_vars

\* C9: with the codec disabled every entry point, called directly or through
\* the shim or the container wrapper, fails with the one error code of the
\* disabled codec, and writes neither the document buffer and its length,
\* nor the container, nor the text buffer; an encode that was given an
\* out_len reports length 0.
C9_JsonDisabledUniform ==
    [][call'.op \in JsonOps =>
          /\ ret' < 0
          /\ errno' = EINVAL
          /\ buf' = buf /\ buflen' = buflen
          /\ ctx' = ctx
          /\ json_buf' = json_buf
          /\ out'.w \subseteq {"out_len"}
          /\ out'.len = 0
          /\ out'.ptr = NULL]_vars

\* the codec called on a document with content, after an engine error of
\* another kind
C9_Witness ==
    /\ call.op \in JsonOps /\ ret < 0 /\ errno = EINVAL
    /\ buflen > HeaderSize
    /\ shim_lite3_ctx_buflen(ctx) > HeaderSize

\* each entry point has been called and has failed
C9_WitnessEncBuf == call.op = "json_enc_buf" /\ ret < 0 /\ buflen > HeaderSize
C9_WitnessCtx == call.op = "ctx_json_dec" /\ ret < 0 /\ shim_lite3_ctx_buflen(ctx) > HeaderSize

(***************************************************************************)
(* Nested containers: the caller stores containers under the root's keys,  *)
(* fills them through the offsets the API hands out, and overwrites keys.  *)
(***************************************************************************)
NestCap == MaxCap + 9
NestValues == {Val(LITE3_TYPE_NULL, <<>>), Val(LITE3_TYPE_I64, <<1>>),
               Val(LITE3_TYPE_OBJECT, <<>>), Val(LITE3_TYPE_ARRAY, <<>>)}
InnerValues == {Val(LITE3_TYPE_NULL, <<>>)}
InnerKeys == {<<1>>}

\* the offsets get_obj / get_arr hand out for the root's keys
Nested ==
    {ShimGet(buf, buflen, 0, j, t).out.ofs :
        <<j, t>> \in {x \in Keys \X RootTypes : ShimGet(buf, buflen, 0, x[1], x[2]).ret >= 0}}

InitNest ==
    /\ bufsz = NestCap
    /\ buf = lite3_init(Blank, bufsz, LITE3_TYPE_OBJECT).buf
    /\ buflen = lite3_init(Blank, bufsz, LITE3_TYPE_OBJECT).buflen
    /\ ctx = NoCtx
    /\ ret = 0
    /\ errno = ""
    /\ out = OutNone
    /\ call = NoCall
    /\ json_buf = NoText
    /\ iter = NoIter
    /\ InitHistory

NextNest ==
    \/ \E o \in Offsets, k \in Keys, v \in NestValues : Set(o, k, v)
    \/ \E o \in Nested, k \in InnerKeys, v \in InnerValues : Set(o, k, v)
    \/ \E o \in Nested, v \in InnerValues : ArrAppend(o, v)

SpecNest == InitNest /\ [][NextNest]_vars

\* what the container at offset o holds: its variant, and its entries in
\* order, each with its key (objects), its value's offset and its value
RECURSIVE Entries(_, _, _, _)
Entries(m, isobj, e, fuel) ==
    IF e = NULL \/ fuel = 0 THEN <<>>
    ELSE LET v == IF isobj THEN ObjValOfs(m, e) ELSE ArrValOfs(m, e) IN
         <<[key |-> IF isobj THEN EntryKey(m, e) ELSE <<>>, ofs |-> v, val |-> Decode(m, v)]>>
            \o Entries(m, isobj, EntryNext(m, e), fuel - 1)

Contents(m, len, o) ==
    [t |-> At(m, o),
     count |-> shim_lite3_count(m, len, o).out.val,
     entries |-> Entries(m, At(m, o) = LITE3_TYPE_OBJECT, FirstEntry(m, o), CountAt(m, o))]

\* a successful set on a key of the root that was set before
Overwrite(c) == c.op = "set" /\ c.ofs = 0 /\ lastSet[c.key] # NoVal

\* C11: an overwrite of one key of the root leaves, for every other key that
\* holds a nested object or array, the offset get_obj / get_arr returns and
\* the contents of the container at that offset as they were; the offset
\* set_obj / set_arr hands out is the one get_obj / get_arr returns.
C11_OverwriteKeepsOtherOffsets ==
    [][(call'.op = "set" /\ call'.ofs = 0 /\ ret' >= 0) =>
          /\ Overwrite(call') =>
                \A j \in Keys \ {call'.key} :
                    lastSet[j].t \in RootTypes =>
                        LET g == ShimGet(buf, buflen, 0, j, lastSet[j].t)
                            h == ShimGet(buf', buflen', 0, j, lastSet[j].t)
                        IN /\ g.ret >= 0 /\ h.ret >= 0
                           /\ h.out.ofs = g.out.ofs
                           /\ Contents(buf', buflen', g.out.ofs) = Contents(buf, buflen, g.out.ofs)
          /\ call'.val.t \in RootTypes =>
                /\ out'.w = {"out_ofs"}
                /\ out'.ofs = ShimGet(buf', buflen', 0, call'.key, call'.val.t).out.ofs]_vars

\* key 2 has just been overwritten with a value of another size, its entry
\* relocated, while key 1 holds an array with an element
C11_Witness ==
    /\ call.op = "set" /\ call.ofs = 0 /\ call.key = <<2>> /\ ret >= 0
    /\ call.val.t = LITE3_TYPE_I64
    /\ lastSet[<<1>>].t = LITE3_TYPE_ARRAY
    /\ keyOrder = <<<<2>>, <<1>>>>
    /\ buflen > call.pre
    /\ Contents(buf, buflen, shim_lite3_get_arr(buf, buflen, 0, <<1>>).out.ofs).count = <<1>>

(***************************************************************************)
(* Growable mode with strings and bytes: views are re-resolved after the   *)
(* container has reallocated.                                              *)
(***************************************************************************)
GrowValues == {Val(LITE3_TYPE_NULL, <<>>), Val(LITE3_TYPE_STRING, <<7>>),
               Val(LITE3_TYPE_BYTES, <<9, 8>>)}
Views == {LITE3_TYPE_STRING, LITE3_TYPE_BYTES}

NextGrow ==
    \/ \E o \in Offsets, k \in Keys, v \in GrowValues, ok \in BOOLEAN : CtxSet(o, k, v, ok)
    \/ \E o \in Offsets, v \in GrowValues, ok \in BOOLEAN : CtxAppend(o, v, ok)

SpecGrow == InitCtx /\ [][NextGrow]_vars

\* the cells a resolved view designates
Resolved(c, r) == Slice(shim_lite3_ctx_buf(c), r.out.ptr, r.out.len)

\* the same view, resolved in c and in d, designates the same cells at the
\* same place
SameView(c, g, d, h) ==
    /\ g.ret >= 0 /\ h.ret >= 0
    /\ h.out.ptr = g.out.ptr /\ h.out.len = g.out.len
    /\ Resolved(d, h) = Resolved(c, g)

\* C12: after a set or append that made the container reallocate, every
\* string or bytes value stored before the call (under another key, or at an
\* index) re-resolves at the same offset to the same bytes as before the
\* call; the reallocation itself hands on the cells [0, old length) as they
\* were.
C12_OffsetsSurviveGrowth ==
    [][(CtxMutation(call') /\ ret' >= 0
            /\ shim_lite3_ctx_bufsz(ctx') > shim_lite3_ctx_bufsz(ctx)) =>
          /\ CtxRootIs(LITE3_TYPE_OBJECT) =>
                \A j \in Keys \ {call'.key} :
                    lastSet[j].t \in Views =>
                        /\ SameView(ctx, ShimCtxGet(ctx, 0, j, lastSet[j].t),
                                    ctx', ShimCtxGet(ctx', 0, j, lastSet[j].t))
                        /\ Resolved(ctx', ShimCtxGet(ctx', 0, j, lastSet[j].t)) = lastSet[j].v
          /\ CtxRootIs(LITE3_TYPE_ARRAY) =>
                \A i \in 1..Len(appended) :
                    appended[i].t \in Views =>
                        /\ SameView(ctx, ShimCtxArrGet(ctx, 0, i - 1, appended[i].t),
                                    ctx', ShimCtxArrGet(ctx', 0, i - 1, appended[i].t))
                        /\ Resolved(ctx', ShimCtxArrGet(ctx', 0, i - 1, appended[i].t))
                              = appended[i].v
          /\ LET g == lite3_ctx_grow(ctx, shim_lite3_ctx_buflen(ctx) + Needed(call'), TRUE) IN
             /\ g.ret >= 0
             /\ g.ctx.bufsz = shim_lite3_ctx_bufsz(ctx')
             /\ g.ctx.buflen = shim_lite3_ctx_buflen(ctx)
             /\ Slice(g.ctx.buf, 0, g.ctx.buflen)
                   = Slice(shim_lite3_ctx_buf(ctx), 0, shim_lite3_ctx_buflen(ctx))]_vars

\* key 1 holds a string, and the set of key 2 has just made the container
\* reallocate
C12_Witness ==
    /\ CtxRootIs(LITE3_TYPE_OBJECT)
    /\ call.op = "ctx_set" /\ call.key = <<2>> /\ ret >= 0
    /\ lastSet[<<1>>].t = LITE3_TYPE_STRING
    /\ call.pre <= 2 * (HeaderSize + 1)
    /\ shim_lite3_ctx_buflen(ctx) > 2 * (HeaderSize + 1)
    /\ shim_lite3_ctx_bufsz(ctx) = 4 * (HeaderSize + 1)

\* the array holds bytes at index 0, and an append has just made the
\* container reallocate
C12_WitnessArray ==
    /\ CtxRootIs(LITE3_TYPE_ARRAY)
    /\ call.op = "ctx_append" /\ ret >= 0 /\ Len(appended) >= 2
    /\ appended[1].t = LITE3_TYPE_BYTES
    /\ call.pre <= 2 * (HeaderSize + 1)
    /\ shim_lite3_ctx_buflen(ctx) > 2 * (HeaderSize + 1)

(***************************************************************************)
(* The cursor after done, and what shim_lite3_iter_next makes of the       *)
(* engine's result; checked under SpecIter.                                *)
(***************************************************************************)
KeyOuts == {"key_ptr", "key_len"}

\* C13: a cursor that has signalled done signals done on every later
\* iter_next, whatever was called in between, and yields nothing; a
\* successful iter_create leaves a cursor whose next iter_next yields the
\* container's first entry (done at once for an empty container).
C13_ExhaustionTerminal ==
    /\ seen.done =>
          LET r == shim_lite3_iter_next(buf, buflen, iter) IN
          /\ r.ret = 1
          /\ r.out = OutNone
          /\ shim_lite3_iter_next(buf, buflen, r.iter).ret = 1
    /\ (call.op = "iter_create" /\ ret >= 0 /\ call.ofs = 0) =>
          LET r == shim_lite3_iter_next(buf, buflen, iter) IN
          IF Len(ExpectedItems) = 0 THEN r.ret = 1
          ELSE r.ret = 0 /\ Yielded(r.out) = ExpectedItems[1]

\* two entries yielded, done signalled, and then a further entry stored in
\* the container: the cursor is still the exhausted one
C13_Witness ==
    /\ seen.done /\ iter.ofs = 0
    /\ call.op \in {"set", "append"} /\ ret >= 0
    /\ Len(ExpectedItems) = 3

\* a cursor just created on a container of two entries: its next iter_next
\* yields the first
C13_WitnessRestart ==
    /\ call.op = "iter_create" /\ ret >= 0 /\ ~seen.done /\ seen.fresh
    /\ Len(ExpectedItems) = 2
    /\ shim_lite3_iter_next(buf, buflen, iter).ret = 0

\* C14: shim_lite3_iter_next returns 1 when lite3_iter_next reports done,
\* its negative code on error and 0 on an item; on 0 key_ptr/key_len are the
\* entry's key for an object and NULL/0 for an array; on 1 or a negative
\* code neither is written.
C14_IterNextMapping ==
    [][call'.op = "iter_next" =>
          LET r == lite3_iter_next(buf, buflen, iter) IN
          /\ r.ret = LITE3_ITER_DONE => (ret' = 1 /\ out'.w \cap KeyOuts = {})
          /\ r.ret < 0 => (ret' = r.ret /\ out'.w \cap KeyOuts = {})
          /\ r.ret = LITE3_ITER_ITEM =>
                /\ ret' = 0
                /\ KeyOuts \subseteq out'.w
                /\ IF iter.isobj
                   THEN /\ out'.ptr # NULL
                        /\ Slice(buf, out'.ptr, out'.len) = EntryKey(buf, iter.pos)
                   ELSE out'.ptr = NULL /\ out'.len = 0
          /\ ret' \in {0, 1} \/ ret' < 0]_vars

\* an object's key yielded
C14_Witness ==
    /\ call.op = "iter_next" /\ ret = 0 /\ RootIs(LITE3_TYPE_OBJECT)
    /\ out.ptr # NULL /\ Slice(buf, out.ptr, out.len) = <<2>>
    /\ Len(seen.items) = 2

C14_WitnessArray ==
    /\ call.op = "iter_next" /\ ret = 0 /\ RootIs(LITE3_TYPE_ARRAY)
    /\ out.ptr = NULL /\ out.len = 0 /\ KeyOuts \subseteq out.w

C14_WitnessDone == call.op = "iter_next" /\ ret = 1 /\ out.w = {} /\ Len(seen.items) = 1

C14_WitnessError == call.op = "iter_next" /\ ret < 0 /\ out.w = {}

(***************************************************************************)
(* Reads in both modes.  A caller holds either its own buffer or a         *)
(* container; in growable mode the iterator runs on the container's        *)
(* buffer and length (shim_lite3_ctx_buf, shim_lite3_ctx_buflen).          *)
(***************************************************************************)
ReadsCap == MaxCap - 2
ReadsValues == {Val(LITE3_TYPE_I64, <<1>>), Val(LITE3_TYPE_STRING, <<7>>)}
ReadsTypes == {LITE3_TYPE_I64, LITE3_TYPE_STRING}
ReadsIndexes == 0..1
CtxReadsKeys == {<<1>>}
CtxReadsElems == {Val(LITE3_TYPE_STRING, <<7>>)}

\* a read of the container: ctx is handed to the engine, which leaves it as
\* it is
CtxRead(r, c) ==
    /\ ret' = r.ret
    /\ errno' = IF r.ret < 0 THEN r.errno ELSE errno
    /\ out' = r.out
    /\ call' = c
    /\ UNCHANGED <<buf, buflen, bufsz, json_buf, ctx, iter, lastSet, keyOrder, appended, seen>>

CtxGet(ofs, key, t) ==
    CtxRead(ShimCtxGet(ctx, ofs, key, t),
            Call("ctx_get", ofs, key, Val(t, <<>>), 0, shim_lite3_ctx_buflen(ctx)))

CtxArrGet(ofs, index, t) ==
    CtxRead(ShimCtxArrGet(ctx, ofs, index, t),
            Call("ctx_arr_get", ofs, <<>>, Val(t, <<>>), index, shim_lite3_ctx_buflen(ctx)))

CtxGetType(ofs, key) ==
    CtxRead(RRes(shim_lite3_ctx_get_type(ctx, ofs, key), "", OutNone),
            Call("ctx_get_type", ofs, key, NoVal, 0, shim_lite3_ctx_buflen(ctx)))

CtxArrGetType(ofs, index) ==
    CtxRead(RRes(shim_lite3_ctx_arr_get_type(ctx, ofs, index), "", OutNone),
            Call("ctx_arr_get_type", ofs, <<>>, NoVal, index, shim_lite3_ctx_buflen(ctx)))

CtxExists(ofs, key) ==
    CtxRead(RRes(shim_lite3_ctx_exists(ctx, ofs, key), "", OutNone),
            Call("ctx_exists", ofs, key, NoVal, 0, shim_lite3_ctx_buflen(ctx)))

CtxCount(ofs) ==
    CtxRead(shim_lite3_ctx_count(ctx, ofs),
            Call("ctx_count", ofs, <<>>, NoVal, 0, shim_lite3_ctx_buflen(ctx)))

CtxIterCreate(ofs) ==
    LET r == shim_lite3_iter_create(shim_lite3_ctx_buf(ctx), shim_lite3_ctx_buflen(ctx),
                                    ofs, iter) IN
    /\ iter' = r.iter
    /\ ret' = r.ret
    /\ errno' = IF r.ret < 0 THEN r.errno ELSE errno
    /\ out' = r.out
    /\ call' = Call("ctx_iter_create", ofs, <<>>, NoVal, 0, shim_lite3_ctx_buflen(ctx))
    /\ UNCHANGED <<buf, buflen, bufsz, json_buf, ctx, lastSet, keyOrder, appended, seen>>

CtxIterNext ==
    LET r == shim_lite3_iter_next(shim_lite3_ctx_buf(ctx), shim_lite3_ctx_buflen(ctx), iter) IN
    /\ iter' = r.iter
    /\ ret' = r.ret
    /\ errno' = IF r.ret < 0 THEN r.errno ELSE errno
    /\ out' = r.out
    /\ call' = Call("ctx_iter_next", iter.ofs, <<>>, NoVal, 0, shim_lite3_ctx_buflen(ctx))
    /\ UNCHANGED <<buf, buflen, bufsz, json_buf, ctx, lastSet, keyOrder, appended, seen>>

\* the caller starts with a buffer of its own or with a container
InitReads ==
    \/ /\ bufsz = ReadsCap
       /\ \E t \in RootTypes :
             /\ buf = lite3_init(Blank, bufsz, t).buf
             /\ buflen = lite3_init(Blank, bufsz, t).buflen
       /\ ctx = NoCtx
       /\ ret = 0
       /\ errno = ""
       /\ out = OutNone
       /\ call = NoCall
       /\ json_buf = NoText
       /\ iter = NoIter
       /\ InitHistory
    \/ InitCtx

Bounded == bufsz > 0
Growable == shim_lite3_ctx_bufsz(ctx) > 0

NextReads ==
    \/ Bounded /\ \E o \in Offsets, k \in Keys, v \in ReadsValues : Set(o, k, v)
    \/ Bounded /\ \E o \in Offsets, v \in ReadsValues : ArrAppend(o, v)
    \/ Bounded /\ \E o \in Offsets, k \in Keys, t \in ReadsTypes : Get(o, k, t)
    \/ Bounded /\ \E o \in Offsets, i \in ReadsIndexes, t \in ReadsTypes : ArrGet(o, i, t)
    \/ Bounded /\ \E o \in Offsets, k \in Keys : GetType(o, k)
    \/ Bounded /\ \E o \in Offsets, i \in ReadsIndexes : ArrGetType(o, i)
    \/ Bounded /\ \E o \in Offsets, k \in Keys : Exists(o, k)
    \/ Bounded /\ \E o \in Offsets : CountCall(o)
    \/ Bounded /\ \E o \in Offsets : IterCreate(o)
    \/ Bounded /\ IterNext
    \/ Growable /\ \E o \in Offsets, k \in CtxReadsKeys, v \in ReadsValues : CtxSet(o, k, v, TRUE)
    \/ Growable /\ \E o \in Offsets, v \in CtxReadsElems : CtxAppend(o, v, TRUE)
    \/ Growable /\ \E o \in Offsets, k \in Keys, t \in ReadsTypes : CtxGet(o, k, t)
    \/ Growable /\ \E o \in Offsets, i \in ReadsIndexes, t \in ReadsTypes : CtxArrGet(o, i, t)
    \/ Growable /\ \E o \in Offsets, k \in Keys : CtxGetType(o, k)
    \/ Growable /\ \E o \in Offsets, i \in ReadsIndexes : CtxArrGetType(o, i)
    \/ Growable /\ \E o \in Offsets, k \in Keys : CtxExists(o, k)
    \/ Growable /\ \E o \in Offsets : CtxCount(o)
    \/ Growable /\ \E o \in Offsets : CtxIterCreate(o)
    \/ Growable /\ CtxIterNext

SpecReads == InitReads /\ [][NextReads]_vars

ReadOps == {"get", "arr_get", "get_type", "arr_get_type", "exists", "count",
            "iter_create", "iter_next"}
CtxReadOps == {"ctx_get", "ctx_arr_get", "ctx_get_type", "ctx_arr_get_type",
               "ctx_exists", "ctx_count", "ctx_iter_create", "ctx_iter_next"}

\* the read c called again on buffer m of length len
Again(m, len, c) ==
    CASE c.op \in {"get", "ctx_get"} ->
            [ret |-> ShimGet(m, len, c.ofs, c.key, c.val.t).ret,
             out |-> ShimGet(m, len, c.ofs, c.key, c.val.t).out]
      [] c.op \in {"arr_get", "ctx_arr_get"} ->
            [ret |-> ShimArrGet(m, len, c.ofs, c.index, c.val.t).ret,
             out |-> ShimArrGet(m, len, c.ofs, c.index, c.val.t).out]
      [] c.op \in {"get_type", "ctx_get_type"} ->
            [ret |-> shim_lite3_get_type(m, len, c.ofs, c.key), out |-> OutNone]
      [] c.op \in {"arr_get_type", "ctx_arr_get_type"} ->
            [ret |-> shim_lite3_arr_get_type(m, len, c.ofs, c.index), out |-> OutNone]
      [] c.op \in {"exists", "ctx_exists"} ->
            [ret |-> shim_lite3_exists(m, len, c.ofs, c.key), out |-> OutNone]
      [] c.op \in {"count", "ctx_count"} ->
            [ret |-> shim_lite3_count(m, len, c.ofs).ret,
             out |-> shim_lite3_count(m, len, c.ofs).out]

C15_WitnessCtx ==
    /\ Growable /\ call.op = "ctx_iter_next" /\ ret = 0
    /\ shim_lite3_ctx_bufsz(ctx) > HeaderSize + 1

(***************************************************************************)
(* The string and bytes getters.  The view lite3_get_str hands back and    *)
(* what LITE3_STR makes of it are the engine's; besides the calls on real  *)
(* content, the getter is run on engine answers drawn from small sets:     *)
(* the code, a view's length, and a resolution that may be NULL.           *)
(***************************************************************************)
ViewValues == {Val(LITE3_TYPE_I64, <<1>>), Val(LITE3_TYPE_STRING, <<7>>),
               Val(LITE3_TYPE_BYTES, <<9>>)}
EngineRets == {-1, 0}
ViewLens == 0..2
Resolutions == {NULL, 0, 1}

\* shim_lite3_get_str / _bytes on an engine answering (r, view of length len)
\* with the view resolving to p
GetView(r, len, p) ==
    Read(ViewOut(RRes(r, IF r < 0 THEN "KeyNotFound" ELSE "",
                      IF r < 0 THEN OutNone
                      ELSE [OutNone EXCEPT !.ptr = p, !.len = len, !.w = {"s"}]), p),
         Call("view", 0, <<>>, Val(LITE3_TYPE_STRING, <<>>), p, len))

NextView ==
    \/ Bounded /\ \E o \in Offsets, k \in CtxReadsKeys, v \in ViewValues : Set(o, k, v)
    \/ Bounded /\ \E o \in Offsets, v \in ViewValues : ArrAppend(o, v)
    \/ Bounded /\ \E o \in Offsets, k \in Keys, t \in Views : Get(o, k, t)
    \/ Bounded /\ \E o \in Offsets, i \in ReadsIndexes, t \in Views : ArrGet(o, i, t)
    \/ Growable /\ \E o \in Offsets, k \in CtxReadsKeys, v \in ViewValues : CtxSet(o, k, v, TRUE)
    \/ Growable /\ \E o \in Offsets, v \in ViewValues : CtxAppend(o, v, TRUE)
    \/ Growable /\ \E o \in Offsets, k \in Keys, t \in Views : CtxGet(o, k, t)
    \/ Growable /\ \E o \in Offsets, i \in ReadsIndexes, t \in Views : CtxArrGet(o, i, t)
    \/ \E r \in EngineRets, len \in ViewLens, p \in Resolutions : GetView(r, len, p)

SpecView == InitReads /\ [][NextView]_vars

ViewGetters == {"get", "arr_get", "ctx_get", "ctx_arr_get"}
ViewCall == (call.op \in ViewGetters /\ call.val.t \in Views) \/ call.op = "view"

\* C16: after a string or bytes getter (by key or index, on a buffer or a
\* container): on a non-negative code out_ptr and out_len are both written
\* and out_len is non-zero only with a non-NULL out_ptr, a view resolving to
\* NULL being reported as NULL with length 0 and any other as the resolved
\* pointer with the view's length; on a negative code neither is written.
C16_ViewOutParameters ==
    ViewCall =>
        /\ ret >= 0 =>
              /\ out.w = {"out_ptr", "out_len"}
              /\ out.len # 0 => out.ptr # NULL
        /\ ret < 0 => out.w = {}
        /\ (call.op = "view" /\ ret >= 0) =>
              IF call.index = NULL THEN out.ptr = NULL /\ out.len = 0
              ELSE out.ptr = call.index /\ out.len = call.pre
        /\ (call.op \in {"get", "arr_get"} /\ ret >= 0) =>
              Slice(buf, out.ptr, out.len) \in {<<7>>, <<9>>}
        /\ (call.op \in {"ctx_get", "ctx_arr_get"} /\ ret >= 0) =>
              Slice(shim_lite3_ctx_buf(ctx), out.ptr, out.len) \in {<<7>>, <<9>>}

\* the engine handed back a view of two cells that resolved to NULL
C16_Witness ==
    /\ call.op = "view" /\ ret >= 0
    /\ call.index = NULL /\ call.pre = 2
    /\ out.ptr = NULL /\ out.len = 0 /\ out.w = {"out_ptr", "out_len"}

\* bytes read by index from a container
C16_WitnessCtx ==
    /\ call.op = "ctx_arr_get" /\ call.val.t = LITE3_TYPE_BYTES /\ call.index = 1
    /\ ret >= 0 /\ out.len = 1 /\ out.ptr # NULL

\* a string getter on a key holding an integer
C16_WitnessFailure ==
    /\ call.op = "get" /\ call.val.t = LITE3_TYPE_STRING /\ ret < 0
    /\ errno = "TypeMismatch" /\ out.w = {}

====
